---- MODULE Spec2Model ----
(***************************************************************************)
(* Savings Tracker: the plan accounting and scheduling engine of app.js    *)
(* together with the persistence layer of store.js.                        *)
(*                                                                         *)
(* Calendar dates are day numbers: day 0 stands for Monday 2024-01-01.     *)
(* The 'en-CA' strings (YYYY-MM-DD) the code compares lexicographically    *)
(* order exactly as the day numbers do, so a string of that format is      *)
(* represented by its day number; a date in another format carries its     *)
(* format name (see EnCA, ToDateString).                                   *)
(*                                                                         *)
(* JavaScript numbers are represented as <<kind, n, d>>: kind "num" is the *)
(* rational n/d in lowest terms (d > 0); the kinds "NaN", "undefined" and  *)
(* "null" are the three non-numbers a money field of the document can hold.*)
(***************************************************************************)
EXTENDS Integers, Sequences, FiniteSets, TLC

VARIABLES state, stored, currentPlanId, today, clock, booted, hostWest, ops, snapshots,
          probe

vars == <<state, stored, currentPlanId, today, clock, booted, hostWest, ops, snapshots, probe>>

(***************************************************************************)
(* Bounds of the model.                                                    *)
(***************************************************************************)
MaxPlans == 2
MaxDay == 2
MaxOps == 4
MaxProducts == 1
MaxExclusions == 2
LongDays == 40
LongOps == 3
SetupDays == 1
MergeLen == 3

(***************************************************************************)
(* Program constants.                                                      *)
(***************************************************************************)
HistoryCap == 30
SurchargeMinAllowance == 80
SurchargeMaxTarget == 50
SafetyCeiling == 10000

(***************************************************************************)
(* JavaScript number semantics                                             *)
(***************************************************************************)
RECURSIVE Gcd(_, _)
Gcd(a, b) == IF b = 0 THEN a ELSE Gcd(b, a % b)

Abs(x) == IF x < 0 THEN -x ELSE x

Rat(n, d) ==
    LET s == IF d < 0 THEN -1 ELSE 1
        g == Gcd(Abs(n), Abs(d))
    IN  <<"num", (s * n) \div g, (s * d) \div g>>

Num(n) == <<"num", n, 1>>
Zero == Num(0)
NaN == <<"NaN", 0, 1>>
Undefined == <<"undefined", 0, 1>>
Null == <<"null", 0, 1>>

IsNum(v) == v[1] = "num"

\* ToNumber: null converts to 0, undefined to NaN.
ToNumber(v) == IF v[1] = "null" THEN Zero ELSE IF v[1] = "undefined" THEN NaN ELSE v

\* v || 0 : 0, NaN, undefined and null are falsy.
OrZero(v) == IF IsNum(v) /\ v[2] # 0 THEN v ELSE Zero

Truthy(v) == IsNum(v) /\ v[2] # 0

\* x + y for operands already converted to numbers
AddNumbers(x, y) ==
    IF IsNum(x) /\ IsNum(y) THEN Rat(x[2] * y[3] + y[2] * x[3], x[3] * y[3]) ELSE NaN

\* a + b: each operand is evaluated and converted once, then the two are added
Add(a, b) ==
    CHOOSE sum \in {AddNumbers(x, y) : x \in {ToNumber(a)}, y \in {ToNumber(b)}} : TRUE

Neg(a) == LET x == ToNumber(a) IN IF IsNum(x) THEN <<"num", -x[2], x[3]>> ELSE NaN

Sub(a, b) == Add(a, Neg(b))

Mul(a, b) ==
    LET x == ToNumber(a)
        y == ToNumber(b)
    IN  IF IsNum(x) /\ IsNum(y) THEN Rat(x[2] * y[2], x[3] * y[3]) ELSE NaN

\* a / k for an integer k > 0
DivInt(a, k) ==
    LET x == ToNumber(a) IN IF IsNum(x) THEN Rat(x[2], x[3] * k) ELSE NaN

\* a / b for a divisor that is a number other than 0
Div(a, b) ==
    LET x == ToNumber(a)
        y == ToNumber(b)
    IN  IF IsNum(x) /\ IsNum(y) /\ y[2] # 0 THEN Rat(x[2] * y[3], x[3] * y[2]) ELSE NaN

\* Math.ceil
MathCeil(a) ==
    LET x == ToNumber(a) IN IF IsNum(x) THEN Num(-((-x[2]) \div x[3])) ELSE NaN

\* a < b : false as soon as one side is NaN
Lt(a, b) ==
    LET x == ToNumber(a)
        y == ToNumber(b)
    IN  IsNum(x) /\ IsNum(y) /\ x[2] * y[3] < y[2] * x[3]

Le(a, b) ==
    LET x == ToNumber(a)
        y == ToNumber(b)
    IN  IsNum(x) /\ IsNum(y) /\ x[2] * y[3] <= y[2] * x[3]

\* Math.max / Math.min : NaN if either argument converts to NaN
MathMax(a, b) ==
    LET x == ToNumber(a)
        y == ToNumber(b)
    IN  IF IsNum(x) /\ IsNum(y) THEN (IF Lt(x, y) THEN y ELSE x) ELSE NaN

MathMin(a, b) ==
    LET x == ToNumber(a)
        y == ToNumber(b)
    IN  IF IsNum(x) /\ IsNum(y) THEN (IF Lt(y, x) THEN y ELSE x) ELSE NaN

\* JSON.stringify writes NaN as null and leaves an undefined field out;
\* JSON.parse gives null back and the field stays absent.
JsonNumber(v) == IF v[1] = "NaN" THEN Null ELSE v

(***************************************************************************)
(* Dates                                                                   *)
(***************************************************************************)
\* toLocaleDateString('en-CA', Asia/Manila) of day d, and Date.toDateString()
\* of day d ("Mon Jan 01 2024"): two different strings for the same day.
EnCA(d) == <<"en-CA", d>>
ToDateString(d) == <<"toDateString", d>>

\* 1970-01-01, what new Date(null) denotes
EpochDay == -19723

\* Date.getDay(): 0 is Sunday, 6 is Saturday; day 0 is a Monday
GetDay(d) == (d + 1) % 7

IsWeekend(d) == GetDay(d) = 0 \/ GetDay(d) = 6

\* A plan's endDate field: a date-input string, "" or null.
EndOn(d) == <<"date", d>>
EndNull == <<"null", 0>>
EndEmpty == <<"empty", 0>>

\* new Date(plan.endDate) followed by setHours(0,0,0,0): a YYYY-MM-DD string
\* parses as UTC midnight, which on a host west of UTC is still the previous
\* local day; null is the epoch; "" is an Invalid Date.
EndIsValid(e) == e[1] # "empty"
EndLocalDay(e, west) ==
    LET d == IF e[1] = "null" THEN EpochDay ELSE e[2]
    IN  IF west THEN d - 1 ELSE d

(***************************************************************************)
(* Exclusions                                                              *)
(***************************************************************************)
Excl(s, e) == [start |-> s, end |-> e]

\* A scan of the list in the order given
SortedIndicesInputOrder(ex) == [r \in 1..Len(ex) |-> r]

\* [...exclusions].sort((a, b) => a.start.localeCompare(b.start)): the stable
\* order of the indices of ex by start.
SortedIndices(ex) ==
    LET n == Len(ex)
        rank(i) == Cardinality({j \in 1..n : \/ ex[j].start < ex[i].start
                                             \/ ex[j].start = ex[i].start /\ j < i}) + 1
    IN  [r \in 1..n |-> CHOOSE i \in 1..n : rank(i) = r]

\* A scan that absorbs an overlapping range without taking its later end
RECURSIVE MergeScanKeepsEnd(_, _, _, _, _, _)
MergeScanKeepsEnd(ex, sorted, i, current, ends, merged) ==
    IF i > Len(sorted)
    THEN [merged |-> Append(merged, current), ends |-> ends]
    ELSE LET next == sorted[i]
         IN  IF ex[next].start <= ends[current]
             THEN MergeScanKeepsEnd(ex, sorted, i + 1, current, ends, merged)
             ELSE MergeScanKeepsEnd(ex, sorted, i + 1, next, ends, Append(merged, current))

\* A scan that compares next.start with the end current had when the scan
\* reached it
RECURSIVE MergeScanStaleEnd(_, _, _, _, _, _)
MergeScanStaleEnd(ex, sorted, i, current, ends, merged) ==
    IF i > Len(sorted)
    THEN [merged |-> Append(merged, current), ends |-> ends]
    ELSE LET next == sorted[i]
         IN  IF ex[next].start <= ex[current].end
             THEN MergeScanStaleEnd(ex, sorted, i + 1, current,
                                    IF ends[next] > ends[current]
                                    THEN [ends EXCEPT ![current] = ends[next]]
                                    ELSE ends,
                                    merged)
             ELSE MergeScanStaleEnd(ex, sorted, i + 1, next, ends, Append(merged, current))

\* The scan of mergeExclusions. The records of the sorted copy are the records
\* of the input, so "current.end = next.end" writes into the input: ends holds
\* the end of every input record, by input index.
RECURSIVE MergeScan(_, _, _, _, _, _)
MergeScan(ex, sorted, i, current, ends, merged) ==
    IF i > Len(sorted)
    THEN [merged |-> Append(merged, current), ends |-> ends]
    ELSE LET next == sorted[i]
         IN  IF ex[next].start <= ends[current]
             THEN MergeScan(ex, sorted, i + 1, current,
                            IF ends[next] > ends[current]
                            THEN [ends EXCEPT ![current] = ends[next]]
                            ELSE ends,
                            merged)
             ELSE MergeScan(ex, sorted, i + 1, next, ends, Append(merged, current))

\* mergeExclusions(exclusions): result is the returned list, input is what the
\* argument's records hold after the call.
MergeRun(ex) ==
    IF Len(ex) = 0
    THEN [result |-> <<>>, input |-> ex]
    ELSE LET sorted == SortedIndices(ex)
             ends0 == [i \in 1..Len(ex) |-> ex[i].end]
             out == MergeScan(ex, sorted, 2, sorted[1], ends0, <<>>)
         IN  [result |-> [k \in 1..Len(out.merged) |->
                             Excl(ex[out.merged[k]].start, out.ends[out.merged[k]])],
              input |-> [i \in 1..Len(ex) |-> Excl(ex[i].start, out.ends[i])]]

mergeExclusions(ex) == MergeRun(ex).result

\* The membership test with the range's last day left out
isDateInExclusionsExclusiveEnd(d, ex) == \E i \in 1..Len(ex) : d >= ex[i].start /\ d < ex[i].end

isDateInExclusions(d, ex) == \E i \in 1..Len(ex) : d >= ex[i].start /\ d <= ex[i].end

\* The while loop of countCalculationDays over the local days cur..last.
RECURSIVE CountLoop(_, _, _, _)
CountLoop(cur, last, mergedEx, count) ==
    IF cur > last
    THEN count
    ELSE CountLoop(cur + 1, last, mergedEx,
                   IF ~IsWeekend(cur) /\ ~isDateInExclusions(cur, mergedEx)
                   THEN count + 1
                   ELSE count)

countCalculationDays(start, end, ex) == CountLoop(start, end, mergeExclusions(ex), 0)

(***************************************************************************)
(* Text typed into an input or a prompt: a numeric text is the number it   *)
(* parses to, NaN stands for a text parseFloat cannot read, EmptyText for  *)
(* "" (and for a cancelled prompt).                                        *)
(***************************************************************************)
EmptyText == <<"empty", 0, 1>>

ParseFloat(t) == IF IsNum(t) THEN t ELSE NaN

(***************************************************************************)
(* Plans                                                                   *)
(***************************************************************************)
NoPlan == 0

\* The object literal of save-new-plan.onclick. The day fields and exclusions
\* are absent from it: an absent number is Undefined, absent exclusions read
\* as the empty list everywhere (plan.exclusions || []).
NewPlan(id, useEnd, end, goal) ==
    [id |-> id, useEndDate |-> useEnd, endDate |-> end, goal |-> goal,
     products |-> <<>>, totalSaved |-> Zero, totalSpent |-> Zero, penaltyDebt |-> Zero,
     estimateMode |-> TRUE, manualSavingsMode |-> FALSE, penaltyMode |-> TRUE,
     dayActive |-> FALSE, history |-> <<>>,
     dailyAllowance |-> Undefined, dailySpent |-> Undefined,
     dailySavingsGoal |-> Undefined, exclusions |-> <<>>]

\* "isDateInExclusions(today, plan.exclusions || [])"
TodayExcludedExclusiveEnd(plan, tdy) ==
    \E i \in 1..Len(plan.exclusions) :
        tdy >= plan.exclusions[i].start /\ tdy < plan.exclusions[i].end

TodayExcluded(plan, tdy) == isDateInExclusions(tdy, plan.exclusions)

\* The branch "plan.useEndDate === false"
IndefiniteTargetAlwaysHalf(plan, allowance) == DivInt(allowance, 2)

IndefiniteTarget(plan, allowance) ==
    IF ~plan.manualSavingsMode
    THEN DivInt(allowance, 2)
    ELSE OrZero(plan.dailySavingsGoal)

\* "today > end": false when end is an Invalid Date
Lapsed(plan, tdy, west) ==
    EndIsValid(plan.endDate) /\ tdy > EndLocalDay(plan.endDate, west)

\* "const daysLeft = countCalculationDays(today, end, ...)": the loop does not
\* run when end is an Invalid Date
DaysLeft(plan, tdy, west) ==
    IF EndIsValid(plan.endDate)
    THEN countCalculationDays(tdy, EndLocalDay(plan.endDate, west), plan.exclusions)
    ELSE 0

\* "Math.max(0, remainingNeeded / daysLeft)", for daysLeft > 0
RawTarget(plan, daysLeft) ==
    MathMax(Zero, DivInt(Sub(plan.goal, OrZero(plan.totalSaved)), daysLeft))

\* The condition of the special user rule
SurchargeAppliesAnyAllowance(plan, allowance, target) ==
    /\ plan.useEndDate # FALSE
    /\ ~plan.manualSavingsMode
    /\ Lt(target, Num(SurchargeMaxTarget))

SurchargeApplies(plan, allowance, target) ==
    /\ plan.useEndDate # FALSE
    /\ ~plan.manualSavingsMode
    /\ Le(Num(SurchargeMinAllowance), allowance)
    /\ Lt(target, Num(SurchargeMaxTarget))

\* "target += (allowance * 0.20)"
Surcharged(plan, allowance, target) ==
    IF SurchargeApplies(plan, allowance, target)
    THEN Add(target, DivInt(allowance, 5))
    ELSE target

\* "return Math.min(allowance, target)"
Uncapped(allowance, target) == target

Capped(allowance, target) == MathMin(allowance, target)

\* calculateRequiredDaily(plan, allowance) on Manila day tdy: value is what it
\* returns, exclusions what plan.exclusions holds afterwards (countCalculationDays
\* hands the plan's own records to mergeExclusions).
RequiredDailyAt(plan, allowance, tdy, west) ==
    LET same(v) == [value |-> v, exclusions |-> plan.exclusions]
        touched(v) == [value |-> v, exclusions |-> MergeRun(plan.exclusions).input]
        daysLeft == DaysLeft(plan, tdy, west)
    IN
    IF TodayExcluded(plan, tdy) THEN same(Zero)
    ELSE IF plan.useEndDate = FALSE THEN same(IndefiniteTarget(plan, allowance))
    ELSE IF ~Truthy(plan.goal) THEN same(Zero)
    ELSE IF Lapsed(plan, tdy, west) THEN same(Zero)
    ELSE IF daysLeft <= 0 THEN touched(allowance)
    ELSE touched(Capped(allowance, Surcharged(plan, allowance, RawTarget(plan, daysLeft))))

calculateRequiredDaily(plan, allowance) == RequiredDailyAt(plan, allowance, today, hostWest).value

\* A refresh that recomputes the target of an open day in every mode
RefreshAtAnyMode(plan, tdy, west) ==
    IF ~plan.dayActive THEN plan
    ELSE LET r == RequiredDailyAt(plan, plan.dailyAllowance, tdy, west)
         IN  [plan EXCEPT !.dailySavingsGoal = r.value, !.exclusions = r.exclusions]

\* refreshPlanTarget(plan)
RefreshAt(plan, tdy, west) ==
    IF ~plan.dayActive THEN plan
    ELSE IF ~plan.manualSavingsMode
    THEN LET r == RequiredDailyAt(plan, plan.dailyAllowance, tdy, west)
         IN  [plan EXCEPT !.dailySavingsGoal = r.value, !.exclusions = r.exclusions]
    ELSE plan

refreshPlanTarget(plan) == RefreshAt(plan, today, hostWest)

(***************************************************************************)
(* calculateProjectedEndDate                                               *)
(***************************************************************************)
\* What the function returns: null, the text "Goal Met!", or an en-CA date
ProjNull == [kind |-> "null", day |-> 0]
ProjMet == [kind |-> "Goal Met!", day |-> 0]
ProjDate(d) == [kind |-> "date", day |-> d]

\* The loop guard without the safety counter
WalkContinuesNoCeiling(w, daysNeeded) == w.found < daysNeeded

\* "while (workingDaysFound < daysNeeded && safety < 10000)"
WalkContinues(w, daysNeeded) == w.found < daysNeeded /\ w.safety < SafetyCeiling

\* One pass through the loop body: cur moves on only while days are missing
WalkStep(w, daysNeeded, mergedEx) ==
    LET found == IF ~IsWeekend(w.cur) /\ ~isDateInExclusions(w.cur, mergedEx)
                 THEN w.found + 1
                 ELSE w.found
    IN  [cur |-> IF found < daysNeeded THEN w.cur + 1 ELSE w.cur,
         found |-> found,
         safety |-> w.safety + 1]

\* The loop variables after at most n more passes, or fewer if the guard
\* fails earlier. The passes are evaluated in two halves, so that the
\* evaluation nests about log2(n) deep rather than n deep.
RECURSIVE Walk(_, _, _, _)
Walk(w, daysNeeded, mergedEx, n) ==
    IF n = 0 \/ ~WalkContinues(w, daysNeeded)
    THEN w
    ELSE IF n = 1
         THEN WalkStep(w, daysNeeded, mergedEx)
         ELSE Walk(Walk(w, daysNeeded, mergedEx, n \div 2), daysNeeded, mergedEx, n - n \div 2)

\* The number of passes the model follows the loop for: one more than the
\* ceiling, so that a loop still running after the ceiling shows.
WalkFuel == SafetyCeiling + 1

\* calculateProjectedEndDate(plan) on local day tdy: value is what it returns,
\* walk the loop variables it ends with, exclusions what plan.exclusions
\* holds afterwards (mergeExclusions writes into the records).
ProjectedEndAt(plan, tdy) ==
    LET start == [cur |-> tdy + 1, found |-> 0, safety |-> 0]
        remainingNeeded == Sub(plan.goal, OrZero(plan.totalSaved))
        daysNeeded == MathCeil(Div(remainingNeeded, plan.dailySavingsGoal))[2]
        run == MergeRun(plan.exclusions)
        w == Walk(start, daysNeeded, run.result, WalkFuel)
    IN  IF ~Truthy(plan.goal) \/ ~Truthy(plan.dailySavingsGoal) \/ Le(plan.dailySavingsGoal, Zero)
        THEN [value |-> ProjNull, walk |-> start, exclusions |-> plan.exclusions]
        ELSE IF Le(remainingNeeded, Zero)
             THEN [value |-> ProjMet, walk |-> start, exclusions |-> plan.exclusions]
             ELSE [value |-> ProjDate(w.cur), walk |-> w, exclusions |-> run.input]

calculateProjectedEndDate(plan) == ProjectedEndAt(plan, today).value

(***************************************************************************)
(* The document and its persistence (store.js)                             *)
(***************************************************************************)
NoDoc == [plans |-> <<>>, totalSavings |-> Undefined, totalSpent |-> Undefined,
          history |-> <<>>, lastLoginDate |-> <<"none", 0>>]

\* defaultState of Store.load on local day d
DefaultState(d) ==
    [plans |-> <<>>, totalSavings |-> Zero, totalSpent |-> Zero,
     history |-> <<>>, lastLoginDate |-> ToDateString(d)]

JsonPlan(p) ==
    [p EXCEPT !.goal = JsonNumber(@), !.totalSaved = JsonNumber(@),
              !.totalSpent = JsonNumber(@), !.penaltyDebt = JsonNumber(@),
              !.dailyAllowance = JsonNumber(@), !.dailySpent = JsonNumber(@),
              !.dailySavingsGoal = JsonNumber(@),
              !.products = [i \in 1..Len(p.products) |-> JsonNumber(p.products[i])],
              !.history = [i \in 1..Len(p.history) |->
                              [p.history[i] EXCEPT !.totalSaved = JsonNumber(@)]]]

\* JSON.parse(JSON.stringify(doc))
Json(doc) ==
    [doc EXCEPT !.plans = [i \in 1..Len(doc.plans) |-> JsonPlan(doc.plans[i])],
                !.totalSavings = JsonNumber(@), !.totalSpent = JsonNumber(@),
                !.history = [i \in 1..Len(doc.history) |->
                                [doc.history[i] EXCEPT !.savings = JsonNumber(@)]]]

\* Mutant: a loaded document comes back with every day closed
LoadClosingDays(data, localDay) ==
    IF data = NoDoc THEN DefaultState(localDay)
    ELSE [data EXCEPT !.totalSavings = OrZero(@),
                      !.plans = [i \in 1..Len(data.plans) |->
                                    [data.plans[i] EXCEPT !.dayActive = FALSE]]]

\* Store.load() followed by "state.totalSavings = state.totalSavings || 0"
\* (app.js lines 11-13); data is the stored document or NoDoc.
Load(data, localDay) ==
    IF data = NoDoc THEN DefaultState(localDay)
    ELSE [data EXCEPT !.totalSavings = OrZero(@)]

(***************************************************************************)
(* Daily rollover                                                          *)
(***************************************************************************)
\* Mutant: the cap is never applied
PushUncapped(h, entry) == Append(h, entry)

\* Mutant: pop() for shift(): a full history drops the entry just pushed
PushCappedPop(h, entry) ==
    LET h2 == Append(h, entry)
    IN  IF Len(h2) > HistoryCap THEN SubSeq(h2, 1, Len(h2) - 1) ELSE h2

\* push followed by "if (length > 30) shift()"
PushCapped(h, entry) ==
    LET h2 == Append(h, entry)
    IN  IF Len(h2) > HistoryCap THEN Tail(h2) ELSE h2

\* Mutant: the day's savings taken to be the whole allowance
ActualSavingsIgnoringSpent(plan) == OrZero(plan.dailyAllowance)

\* (plan.dailyAllowance || 0) - (plan.dailySpent || 0)
ActualSavings(plan) == Sub(OrZero(plan.dailyAllowance), OrZero(plan.dailySpent))

\* Mutant: the debt accrues whatever the target mode
AccruesPenaltyAnyMode(plan) ==
    /\ plan.penaltyMode
    /\ Lt(Sub(OrZero(plan.dailyAllowance), OrZero(plan.dailySpent)),
          OrZero(plan.dailySavingsGoal))

\* The condition under which the closing day adds to penaltyDebt
AccruesPenalty(plan) ==
    /\ plan.penaltyMode
    /\ plan.estimateMode \/ plan.manualSavingsMode
    /\ Lt(ActualSavings(plan), OrZero(plan.dailySavingsGoal))

\* "Track debt in penalty mode"
TrackDebt(plan) ==
    IF AccruesPenalty(plan)
    THEN [plan EXCEPT !.penaltyDebt =
             Add(OrZero(@), Sub(OrZero(plan.dailySavingsGoal), ActualSavings(plan)))]
    ELSE plan

\* Mutant: the closing day is added to the document total only
UpdateTotalsSpentOnly(plan) ==
    [plan EXCEPT !.totalSpent = Add(OrZero(@), OrZero(plan.dailySpent))]

\* "Update totals", the plan's part
UpdateTotals(plan) ==
    [plan EXCEPT !.totalSaved = Add(OrZero(@), ActualSavings(plan)),
                 !.totalSpent = Add(OrZero(@), OrZero(plan.dailySpent))]

\* Mutant: the plan's history records the total from before the day was added
TrackHistoryBeforeTotals(plan, date) ==
    [plan EXCEPT !.history =
        PushCapped(@, [date |-> date,
                       totalSaved |-> Sub(plan.totalSaved,
                                          Sub(OrZero(plan.dailyAllowance),
                                              OrZero(plan.dailySpent)))])]

\* "Plan-specific history tracking"
TrackHistory(plan, date) ==
    [plan EXCEPT !.history = PushCapped(@, [date |-> date, totalSaved |-> plan.totalSaved])]

\* Mutant: the day's spending survives the reset
ResetDailyKeepsSpent(plan) ==
    [plan EXCEPT !.dayActive = FALSE,
                 !.dailyAllowance = Zero,
                 !.dailySavingsGoal = Zero]

\* Mutant: the day-scoped amounts are reset but the plan is left Open
ResetDailyStaysOpen(plan) ==
    [plan EXCEPT !.dailyAllowance = Zero,
                 !.dailySpent = Zero,
                 !.dailySavingsGoal = Zero]

\* "Reset daily"
ResetDaily(plan) ==
    [plan EXCEPT !.dayActive = FALSE,
                 !.dailyAllowance = Zero,
                 !.dailySpent = Zero,
                 !.dailySavingsGoal = Zero]

\* The body of "if (plan.dayActive) { ... }" in checkDailyReset: its four
\* blocks in order, each applied to the plan the block before it left
ClosePlan(plan, date) ==
    CHOOSE closed \in {ResetDaily(h) : h \in
                        {TrackHistory(u, date) : u \in
                            {UpdateTotals(t) : t \in {TrackDebt(plan)}}}} : TRUE

\* state.totalSavings after the forEach: += actualSavings for every Open plan
RECURSIVE SavingsAfter(_, _, _)
SavingsAfter(plans, i, total) ==
    IF i > Len(plans) THEN total
    ELSE SavingsAfter(plans, i + 1,
                      IF plans[i].dayActive THEN Add(total, ActualSavings(plans[i])) ELSE total)

\* Mutant: the rollover runs on every call
DateChangedAlways(doc, tdy) == TRUE

DateChanged(doc, tdy) == doc.lastLoginDate # EnCA(tdy)

\* Mutant: the document's snapshot is stamped with today's date
checkDailyResetStampsToday(doc, tdy) ==
    IF doc.lastLoginDate # EnCA(tdy)
    THEN LET total == SavingsAfter(doc.plans, 1, doc.totalSavings)
         IN  [doc EXCEPT
                !.plans = [i \in 1..Len(doc.plans) |->
                              IF doc.plans[i].dayActive
                              THEN ClosePlan(doc.plans[i], doc.lastLoginDate)
                              ELSE doc.plans[i]],
                !.totalSavings = total,
                !.history = PushCapped(@, [date |-> EnCA(tdy), savings |-> total]),
                !.lastLoginDate = EnCA(tdy)]
    ELSE doc

\* checkDailyReset() on Manila day tdy: the document it leaves
checkDailyReset(doc, tdy) ==
    IF DateChanged(doc, tdy)
    THEN LET total == SavingsAfter(doc.plans, 1, doc.totalSavings)
         IN  [doc EXCEPT
                !.plans = [i \in 1..Len(doc.plans) |->
                              IF doc.plans[i].dayActive
                              THEN ClosePlan(doc.plans[i], doc.lastLoginDate)
                              ELSE doc.plans[i]],
                !.totalSavings = total,
                !.history = PushCapped(@, [date |-> doc.lastLoginDate, savings |-> total]),
                !.lastLoginDate = EnCA(tdy)]
    ELSE doc

\* What localStorage holds after checkDailyReset: saveState() runs only inside
\* the date-changed branch.
StoredAfterReset(doc, tdy, old) ==
    IF DateChanged(doc, tdy)
    THEN CHOOSE json \in {Json(after) : after \in {checkDailyReset(doc, tdy)}} : TRUE
    ELSE old

(***************************************************************************)
(* Handlers on the plan selected by currentPlanId                          *)
(***************************************************************************)
HasPlan(doc, pid) == \E i \in 1..Len(doc.plans) : doc.plans[i].id = pid

\* state.plans.find(p => p.id === currentPlanId)
FindIdx(doc, pid) == CHOOSE i \in 1..Len(doc.plans) : doc.plans[i].id = pid

Find(doc, pid) == doc.plans[FindIdx(doc, pid)]

WithPlan(doc, pid, plan) == [doc EXCEPT !.plans[FindIdx(doc, pid)] = plan]

RemoveAt(seq, idx) == [i \in 1..(Len(seq) - 1) |-> IF i < idx THEN seq[i] ELSE seq[i + 1]]

\* A renderExclusions that merges for display only
renderExclusionsDisplayOnly(plan) == plan

\* renderExclusions(): writes the merged list back into the plan
renderExclusions(plan) ==
    IF Len(plan.exclusions) = 0 THEN plan
    ELSE [plan EXCEPT !.exclusions = mergeExclusions(plan.exclusions)]

\* start-day-btn.onclick, past the empty-allowance check
StartDayPlan(plan, allowanceText, manualText, tdy, west) ==
    LET allowance == OrZero(ParseFloat(allowanceText))
        r == RequiredDailyAt(plan, allowance, tdy, west)
        target == IF plan.manualSavingsMode THEN OrZero(ParseFloat(manualText))
                  ELSE IF plan.estimateMode THEN r.value
                  ELSE Zero
    IN  [plan EXCEPT !.dayActive = TRUE,
                     !.dailyAllowance = allowance,
                     !.dailySavingsGoal = target,
                     !.dailySpent = Zero,
                     !.exclusions = IF ~plan.manualSavingsMode /\ plan.estimateMode
                                    THEN r.exclusions ELSE @]

\* The overspending confirm of a purchase, declined
Declined(plan, cost, confirmed) ==
    Lt(Sub(plan.dailyAllowance, plan.dailySpent), cost) /\ ~confirmed

\* plan.dailySpent += cost
Spend(plan, cost) == [plan EXCEPT !.dailySpent = Add(@, cost)]

\* parseFloat(costInput) || 0 of buy-other-btn.onclick
OtherCost(costText) == OrZero(ParseFloat(costText))

\* toggle-estimate.onchange
ToggleEstimatePlan(plan, checked) ==
    [plan EXCEPT !.estimateMode = checked,
                 !.manualSavingsMode = IF checked THEN FALSE ELSE @]

\* A manual toggle that leaves the estimate flag alone
ToggleManualPlanKeepEstimate(plan, checked) == [plan EXCEPT !.manualSavingsMode = checked]

\* toggle-manual.onchange
ToggleManualPlan(plan, checked) ==
    [plan EXCEPT !.manualSavingsMode = checked,
                 !.estimateMode = IF checked THEN FALSE ELSE TRUE]

(***************************************************************************)
(* Inputs                                                                  *)
(***************************************************************************)
InitialDays == {3}
LastDay == 3 + MaxDay
LongLastDay == 3 + LongDays
AllowanceTexts == {EmptyText, Num(100), Num(-10)}
ManualTexts == {EmptyText, Num(80)}
CostTexts == {Num(30), Num(120)}
GoalTexts == {NaN, Num(300)}
PriceTexts == {Num(30), Num(-50)}
EndTexts == {EndOn(4), EndEmpty}
ExclusionInputs == {Excl(2, 3), Excl(3, 4), Excl(4, 6)}
PlanIds == 1..(MaxOps + 1)

(***************************************************************************)
(* Actions: one per handler. A handler leaves ops alone; the next-state    *)
(* relations below count the handlers that ran.                            *)
(***************************************************************************)
\* probe holds the last direct call of a helper function: its arguments and
\* what it returned. No handler of the page writes it.
NoCall == [fn |-> "none"]

\* The page starts on a host whose local date is the Manila date: no document
\* is stored, "let state = Store.load()" has run, init() has not.
InitOn(hosts) ==
    /\ stored = NoDoc
    /\ today \in InitialDays
    /\ state = Load(NoDoc, today)
    /\ currentPlanId = NoPlan
    /\ clock = 1
    /\ booted = FALSE
    /\ hostWest \in hosts
    /\ ops = 0
    /\ snapshots = <<>>
    /\ probe = NoCall

Init == InitOn({FALSE})

InitAnyHost == InitOn(BOOLEAN)

\* A handler that ends in saveState(): doc is the document it leaves
Saved(doc) ==
    /\ state' = doc
    /\ stored' = Json(doc)

\* A handler that returns before it touches the document
Rejected == UNCHANGED <<state, stored>>

OnPlan == booted /\ HasPlan(state, currentPlanId)

Cur == Find(state, currentPlanId)

\* init(): the first checkDailyReset of a session
AppInit ==
    /\ ~booted
    /\ booted' = TRUE
    /\ state' = checkDailyReset(state, today)
    /\ stored' = StoredAfterReset(state, today, stored)
    /\ UNCHANGED <<currentPlanId, today, clock, hostWest>>

\* visibilitychange to 'visible'
VisibilityChange ==
    /\ booted
    /\ state' = checkDailyReset(state, today)
    /\ stored' = StoredAfterReset(state, today, stored)
    /\ UNCHANGED <<currentPlanId, today, clock, booted, hostWest>>

\* showScreen() from a nav item or the back button
ShowScreen ==
    /\ booted
    /\ state' = checkDailyReset(state, today)
    /\ stored' = StoredAfterReset(state, today, stored)
    /\ UNCHANGED <<currentPlanId, today, clock, booted, hostWest>>

\* openPlanHub(planId): renderExclusions, then showScreen
OpenPlanHub(pid) ==
    /\ booted
    /\ HasPlan(state, pid)
    /\ currentPlanId' = pid
    /\ LET doc == WithPlan(state, pid, renderExclusions(Find(state, pid)))
       IN  /\ state' = checkDailyReset(doc, today)
           /\ stored' = StoredAfterReset(doc, today, stored)
    /\ UNCHANGED <<today, clock, booted, hostWest>>

\* save-new-plan.onclick; Date.now() is the clock
SaveNewPlan(nameGiven, startGiven, useEnd, endText, goalText) ==
    /\ booted
    /\ Len(state.plans) < MaxPlans
    /\ IF ~nameGiven \/ ~startGiven \/ (useEnd /\ endText = EndEmpty)
       THEN Rejected /\ UNCHANGED clock
       ELSE /\ clock' = clock + 1
            /\ Saved([state EXCEPT !.plans =
                      Append(@, NewPlan(clock, useEnd,
                                        IF useEnd THEN endText ELSE EndNull,
                                        OrZero(ParseFloat(goalText))))])
    /\ UNCHANGED <<currentPlanId, today, booted, hostWest>>

\* update-plan-btn.onclick; the use-end-date checkbox mirrors plan.useEndDate
UpdatePlan(endText, goalText) ==
    /\ OnPlan
    /\ Saved(WithPlan(state, currentPlanId,
                      refreshPlanTarget([Cur EXCEPT
                          !.endDate = IF Cur.useEndDate THEN endText ELSE EndNull,
                          !.goal = OrZero(ParseFloat(goalText))])))
    /\ UNCHANGED <<currentPlanId, today, clock, booted, hostWest>>

\* A checkbox mirrors its flag, so a change event carries the flag's negation.
ToggleEstimate(checked) ==
    /\ OnPlan
    /\ checked # Cur.estimateMode
    /\ Saved(WithPlan(state, currentPlanId,
                      refreshPlanTarget(ToggleEstimatePlan(Cur, checked))))
    /\ UNCHANGED <<currentPlanId, today, clock, booted, hostWest>>

ToggleManual(checked) ==
    /\ OnPlan
    /\ checked # Cur.manualSavingsMode
    /\ Saved(WithPlan(state, currentPlanId,
                      refreshPlanTarget(ToggleManualPlan(Cur, checked))))
    /\ UNCHANGED <<currentPlanId, today, clock, booted, hostWest>>

\* toggle-penalty.onchange
TogglePenalty(checked) ==
    /\ OnPlan
    /\ checked # Cur.penaltyMode
    /\ Saved(WithPlan(state, currentPlanId, [Cur EXCEPT !.penaltyMode = checked]))
    /\ UNCHANGED <<currentPlanId, today, clock, booted, hostWest>>

\* toggle-use-end-date.onchange
ToggleUseEndDate(checked) ==
    /\ OnPlan
    /\ checked # Cur.useEndDate
    /\ Saved(WithPlan(state, currentPlanId,
                      refreshPlanTarget([Cur EXCEPT !.useEndDate = checked])))
    /\ UNCHANGED <<currentPlanId, today, clock, booted, hostWest>>

\* A start-day that takes an empty allowance field like any other
AllowanceMissingNever(allowanceText) == FALSE

\* allowanceInput === ""
AllowanceMissing(allowanceText) == allowanceText = EmptyText

\* start-day-btn.onclick
StartDay(allowanceText, manualText) ==
    /\ OnPlan
    /\ IF AllowanceMissing(allowanceText)
       THEN Rejected
       ELSE Saved(WithPlan(state, currentPlanId,
                           StartDayPlan(Cur, allowanceText, manualText, today, hostWest)))
    /\ UNCHANGED <<currentPlanId, today, clock, booted, hostWest>>

\* edit-allowance-btn.onclick, confirmed
EditAllowance(newVal) ==
    /\ OnPlan
    /\ IF ~IsNum(ParseFloat(newVal))
       THEN Rejected
       ELSE Saved(WithPlan(state, currentPlanId,
                           refreshPlanTarget([Cur EXCEPT !.dailyAllowance = ParseFloat(newVal)])))
    /\ UNCHANGED <<currentPlanId, today, clock, booted, hostWest>>

\* edit-manual-savings-btn.onclick, confirmed
EditManualSavings(newVal) ==
    /\ OnPlan
    /\ IF ~IsNum(ParseFloat(newVal))
       THEN Rejected
       ELSE Saved(WithPlan(state, currentPlanId,
                           [Cur EXCEPT !.dailySavingsGoal = ParseFloat(newVal)]))
    /\ UNCHANGED <<currentPlanId, today, clock, booted, hostWest>>

\* buy-other-btn.onclick
BuyOther(costText, confirmed) ==
    /\ OnPlan
    /\ IF Le(OtherCost(costText), Zero) \/ Declined(Cur, OtherCost(costText), confirmed)
       THEN Rejected
       ELSE Saved(WithPlan(state, currentPlanId, Spend(Cur, OtherCost(costText))))
    /\ UNCHANGED <<currentPlanId, today, clock, booted, hostWest>>

\* save-prod-btn.onclick
SaveProduct(nameGiven, priceText) ==
    /\ OnPlan
    /\ Len(Cur.products) < MaxProducts
    /\ IF ~nameGiven \/ ~IsNum(ParseFloat(priceText))
       THEN Rejected
       ELSE Saved(WithPlan(state, currentPlanId,
                           [Cur EXCEPT !.products = Append(@, ParseFloat(priceText))]))
    /\ UNCHANGED <<currentPlanId, today, clock, booted, hostWest>>

\* window.deleteProduct(idx)
DeleteProduct(idx) ==
    /\ OnPlan
    /\ idx \in 1..Len(Cur.products)
    /\ Saved(WithPlan(state, currentPlanId, [Cur EXCEPT !.products = RemoveAt(@, idx)]))
    /\ UNCHANGED <<currentPlanId, today, clock, booted, hostWest>>

\* window.buyProduct(idx)
BuyProduct(idx, confirmed) ==
    /\ OnPlan
    /\ idx \in 1..Len(Cur.products)
    /\ IF Declined(Cur, Cur.products[idx], confirmed)
       THEN Rejected
       ELSE Saved(WithPlan(state, currentPlanId, Spend(Cur, Cur.products[idx])))
    /\ UNCHANGED <<currentPlanId, today, clock, booted, hostWest>>

\* save-excl-btn.onclick: push, refreshPlanTarget, saveState, renderExclusions
SaveExclusion(startGiven, endGiven, range) ==
    /\ OnPlan
    /\ Len(Cur.exclusions) < MaxExclusions
    /\ IF ~startGiven \/ ~endGiven
       THEN Rejected
       ELSE LET plan == refreshPlanTarget([Cur EXCEPT !.exclusions = Append(@, range)])
            IN  /\ stored' = Json(WithPlan(state, currentPlanId, plan))
                /\ state' = WithPlan(state, currentPlanId, renderExclusions(plan))
    /\ UNCHANGED <<currentPlanId, today, clock, booted, hostWest>>

\* window.deleteExclusion(idx): splice, refreshPlanTarget, saveState, renderExclusions
DeleteExclusion(idx) ==
    /\ OnPlan
    /\ idx \in 1..Len(Cur.exclusions)
    /\ LET plan == refreshPlanTarget([Cur EXCEPT !.exclusions = RemoveAt(@, idx)])
       IN  /\ stored' = Json(WithPlan(state, currentPlanId, plan))
           /\ state' = WithPlan(state, currentPlanId, renderExclusions(plan))
    /\ UNCHANGED <<currentPlanId, today, clock, booted, hostWest>>

\* A deletion that also takes what the plan saved out of the document total
DeletePlanCompensating ==
    /\ OnPlan
    /\ LET doc == [state EXCEPT !.plans = RemoveAt(@, FindIdx(state, currentPlanId)),
                                !.totalSavings = Sub(@, Cur.totalSaved)]
       IN  /\ state' = checkDailyReset(doc, today)
           /\ stored' = Json(checkDailyReset(doc, today))
    /\ UNCHANGED <<currentPlanId, today, clock, booted, hostWest>>

\* confirm-ok.onclick of delete-plan-btn: filter, saveState, showScreen
DeletePlan ==
    /\ OnPlan
    /\ LET doc == [state EXCEPT !.plans = RemoveAt(@, FindIdx(state, currentPlanId))]
       IN  /\ state' = checkDailyReset(doc, today)
           /\ stored' = Json(checkDailyReset(doc, today))
    /\ UNCHANGED <<currentPlanId, today, clock, booted, hostWest>>

\* Midnight in Manila
Tick ==
    /\ today < LastDay
    /\ today' = today + 1
    /\ UNCHANGED <<state, stored, currentPlanId, clock, booted, hostWest, ops, snapshots, probe>>

\* The page is closed and opened again: "let state = Store.load()"
Reload ==
    /\ booted
    /\ state' = Load(stored, today)
    /\ currentPlanId' = NoPlan
    /\ booted' = FALSE
    /\ UNCHANGED <<stored, today, clock, hostWest>>

(***************************************************************************)
(* Next-state relations                                                    *)
(***************************************************************************)
\* snapshots records every document-history snapshot a rollover has taken:
\* the date in force before it and the total it left.
Recorded ==
    snapshots' = IF state.lastLoginDate # EnCA(today) /\ state'.lastLoginDate = EnCA(today)
                 THEN Append(snapshots, [date |-> state.lastLoginDate,
                                         savings |-> state'.totalSavings])
                 ELSE snapshots

\* A run of a handler that the bound on user actions counts: one that changed
\* something. (A handler that changed nothing is a stuttering step.)
Counted(cap, A) ==
    /\ ops < cap
    /\ A
    /\ ops' = IF <<state, stored, currentPlanId, clock, booted>>'
                   = <<state, stored, currentPlanId, clock, booted>>
              THEN ops ELSE ops + 1
    /\ Recorded
    /\ UNCHANGED probe

\* A trigger of the platform, not an action of the user
Free(A) == A /\ UNCHANGED <<ops, probe>> /\ Recorded

Next ==
    \/ Free(AppInit)
    \/ Free(VisibilityChange)
    \/ Free(ShowScreen)
    \/ \E pid \in PlanIds : Counted(MaxOps, OpenPlanHub(pid))
    \/ \E n, s, u \in BOOLEAN, e \in EndTexts, g \in GoalTexts :
          Counted(MaxOps, SaveNewPlan(n, s, u, e, g))
    \/ \E e \in EndTexts, g \in GoalTexts : Counted(MaxOps, UpdatePlan(e, g))
    \/ \E c \in BOOLEAN : Counted(MaxOps, ToggleEstimate(c))
    \/ \E c \in BOOLEAN : Counted(MaxOps, ToggleManual(c))
    \/ \E c \in BOOLEAN : Counted(MaxOps, TogglePenalty(c))
    \/ \E c \in BOOLEAN : Counted(MaxOps, ToggleUseEndDate(c))
    \/ \E a \in AllowanceTexts, m \in ManualTexts : Counted(MaxOps, StartDay(a, m))
    \/ \E a \in AllowanceTexts : Counted(MaxOps, EditAllowance(a))
    \/ \E m \in ManualTexts : Counted(MaxOps, EditManualSavings(m))
    \/ \E c \in CostTexts, k \in BOOLEAN : Counted(MaxOps, BuyOther(c, k))
    \/ \E n \in BOOLEAN, t \in PriceTexts : Counted(MaxOps, SaveProduct(n, t))
    \/ \E i \in 1..MaxProducts : Counted(MaxOps, DeleteProduct(i))
    \/ \E i \in 1..MaxProducts, k \in BOOLEAN : Counted(MaxOps, BuyProduct(i, k))
    \/ \E s, e \in BOOLEAN, r \in ExclusionInputs : Counted(MaxOps, SaveExclusion(s, e, r))
    \/ \E i \in 1..MaxExclusions : Counted(MaxOps, DeleteExclusion(i))
    \/ Counted(MaxOps, DeletePlan)
    \/ Tick
    \/ Counted(MaxOps, Reload)

Spec == Init /\ [][Next]_vars

SpecAnyHost == InitAnyHost /\ [][Next]_vars

\* A rollover trigger of the platform or of navigation: application start,
\* the page becoming visible again, a screen switch
Trigger == Free(AppInit) \/ Free(VisibilityChange) \/ Free(ShowScreen)

\* Daily use with the triggers: plans are created, opened, started, bought
\* from and deleted, the page is closed and opened again, and days pass.
NextLive ==
    \/ Trigger
    \/ \E pid \in PlanIds : Counted(MaxOps, OpenPlanHub(pid))
    \/ \E g \in GoalTexts : Counted(MaxOps, SaveNewPlan(TRUE, TRUE, FALSE, EndEmpty, g))
    \/ Counted(MaxOps, StartDay(Num(100), EmptyText))
    \/ Counted(MaxOps, BuyOther(Num(30), TRUE))
    \/ Counted(MaxOps, DeletePlan)
    \/ Counted(MaxOps, Reload)
    \/ Tick

\* A trigger has something to do: init() has not run, or the date differs
\* from lastLoginDate
TriggerDue == ~booted \/ state.lastLoginDate # EnCA(today)

\* The page in use where a trigger is not withheld for ever: once the date
\* differs from lastLoginDate, the page is at some point started, shown again
\* or switched to another screen.
SpecLive == Init /\ [][NextLive]_vars /\ WF_vars(TriggerDue /\ Trigger)

(***************************************************************************)
(* The long run: the page is opened every day for more days than a history *)
(* holds. Plans are set up and purchases made in the first days; afterwards*)
(* the user starts the day of every plan, every day, with the same         *)
(* allowance.                                                              *)
(***************************************************************************)
InSetup == today < 3 + SetupDays

\* Midnight in Manila, after a day on which the rollover ran and every plan's
\* day was started
TickLong ==
    /\ today < LongLastDay
    /\ state.lastLoginDate = EnCA(today)
    /\ \A i \in 1..Len(state.plans) : state.plans[i].dayActive
    /\ today' = today + 1
    /\ UNCHANGED <<state, stored, currentPlanId, clock, booted, hostWest, ops, snapshots, probe>>

NextLong ==
    \/ Free(AppInit)
    \/ Free(VisibilityChange)
    \/ \E pid \in PlanIds : Free(OpenPlanHub(pid))
    \/ \E g \in GoalTexts : InSetup /\ Counted(LongOps, SaveNewPlan(TRUE, TRUE, FALSE, EndEmpty, g))
    \/ InSetup /\ Counted(LongOps, BuyOther(Num(30), TRUE))
    \/ OnPlan /\ ~Cur.dayActive /\ state.lastLoginDate = EnCA(today)
          /\ Free(StartDay(Num(100), EmptyText))
    \/ TickLong

SpecLong == Init /\ [][NextLong]_vars

(***************************************************************************)
(* calculateRequiredDaily called directly: on a document with one plan,    *)
(* for every combination of the plan's settings, the day, the host and the *)
(* allowance.                                                              *)
(***************************************************************************)
CalcGoals == {Zero, Num(250), Num(1000), Num(10000)}
CalcSaved == {Zero, Num(200), Num(9900)}
CalcManualGoals == {Undefined, Num(80)}
CalcEnds == {EndOn(4), EndOn(6), EndOn(9), EndOn(11), EndEmpty, EndNull}
CalcDays == {0, 4, 5, 6}
CalcRanges == {Excl(4, 4), Excl(5, 6), Excl(7, 9)}
CalcAllowances == {Zero, Num(50), Num(90), Num(100)}

\* The lists of at most n ranges drawn from R
RangeLists(R, n) == UNION {[1..k -> R] : k \in 0..n}

\* A plan as the handlers leave it: created by save-new-plan, possibly switched
\* to manual mode and started with a manual target, with what it saved so far
\* recorded by yesterday's rollover.
CalcPlan(useEnd, end, goal, saved, manual, manualGoal, ex, tdy) ==
    [NewPlan(1, useEnd, end, goal) EXCEPT
        !.totalSaved = saved,
        !.history = IF saved = Zero THEN <<>>
                    ELSE <<[date |-> EnCA(tdy - 1), totalSaved |-> saved]>>,
        !.estimateMode = ~manual,
        !.manualSavingsMode = manual,
        !.dayActive = (manualGoal # Undefined),
        !.dailyAllowance = IF manualGoal # Undefined THEN Num(100) ELSE Undefined,
        !.dailySpent = IF manualGoal # Undefined THEN Zero ELSE Undefined,
        !.dailySavingsGoal = manualGoal,
        !.exclusions = ex]

InitCalc ==
    /\ today \in CalcDays
    /\ hostWest \in BOOLEAN
    /\ \E useEnd, manual \in BOOLEAN, end \in CalcEnds, goal \in CalcGoals,
          saved \in CalcSaved, manualGoal \in CalcManualGoals,
          ex \in RangeLists(CalcRanges, MaxExclusions) :
          /\ useEnd \/ end = EndNull
          /\ manual \/ manualGoal = Undefined
          /\ state = [DefaultState(today) EXCEPT
                         !.plans = <<CalcPlan(useEnd, end, goal, saved, manual,
                                              manualGoal, ex, today)>>,
                         !.totalSavings = saved,
                         !.history = IF saved = Zero THEN <<>>
                                     ELSE <<[date |-> EnCA(today - 1), savings |-> saved]>>,
                         !.lastLoginDate = EnCA(today)]
    /\ stored = Json(state)
    /\ currentPlanId = 1
    /\ clock = 2
    /\ booted = TRUE
    /\ ops = 0
    /\ snapshots = <<>>
    /\ probe = NoCall

\* calculateRequiredDaily(plan, allowance) on the open plan: probe keeps the
\* plan it was called on, the allowance and the value returned; the plan's
\* exclusion records are left as countCalculationDays leaves them.
CallRequiredDaily(allowance) ==
    /\ OnPlan
    /\ LET r == RequiredDailyAt(Cur, allowance, today, hostWest)
       IN  /\ probe' = [fn |-> "calculateRequiredDaily", plan |-> Cur,
                        allowance |-> allowance, value |-> r.value]
           /\ state' = WithPlan(state, currentPlanId, [Cur EXCEPT !.exclusions = r.exclusions])
    /\ UNCHANGED <<stored, currentPlanId, today, clock, booted, hostWest, ops, snapshots>>

NextCalc == \E a \in CalcAllowances : CallRequiredDaily(a)

SpecCalc == InitCalc /\ [][NextCalc]_vars

(***************************************************************************)
(* mergeExclusions called directly, on every list of at most MergeLen      *)
(* ranges (day 0 is 2024-01-01): overlapping, nested, touching, duplicate, *)
(* unsorted, and one range whose end is before its start, which the        *)
(* exclusion form accepts.                                                 *)
(***************************************************************************)
MergeRanges == {Excl(0, 4), Excl(3, 9), Excl(31, 32), Excl(1, 2), Excl(5, 5), Excl(7, 6)}

InitMerge ==
    /\ today \in InitialDays
    /\ hostWest = FALSE
    /\ \E ex \in RangeLists(MergeRanges, MergeLen) :
          state = [DefaultState(today) EXCEPT
                      !.plans = <<[NewPlan(1, FALSE, EndNull, Zero) EXCEPT !.exclusions = ex]>>,
                      !.lastLoginDate = EnCA(today)]
    /\ stored = Json(state)
    /\ currentPlanId = 1
    /\ clock = 2
    /\ booted = TRUE
    /\ ops = 0
    /\ snapshots = <<>>
    /\ probe = NoCall

\* mergeExclusions(plan.exclusions): probe keeps the list it was given and the
\* list it returned; the plan's records are left as the scan leaves them.
CallMerge ==
    /\ OnPlan
    /\ probe.fn = "none"
    /\ probe' = [fn |-> "mergeExclusions", calls |-> 1, input |-> Cur.exclusions,
                 value |-> mergeExclusions(Cur.exclusions), again |-> <<>>]
    /\ state' = WithPlan(state, currentPlanId,
                         [Cur EXCEPT !.exclusions = MergeRun(Cur.exclusions).input])
    /\ UNCHANGED <<stored, currentPlanId, today, clock, booted, hostWest, ops, snapshots>>

\* mergeExclusions called on the list the first call returned
CallMergeOnResult ==
    /\ probe.fn = "mergeExclusions"
    /\ probe.calls = 1
    /\ probe' = [probe EXCEPT !.calls = 2, !.again = mergeExclusions(probe.value)]
    /\ UNCHANGED <<state, stored, currentPlanId, today, clock, booted, hostWest, ops, snapshots>>

NextMerge == CallMerge \/ CallMergeOnResult

SpecMerge == InitMerge /\ [][NextMerge]_vars

(***************************************************************************)
(* countCalculationDays called directly with two date strings (parsed as   *)
(* local midnights, lines 71-75) and the plan's exclusions: single days,   *)
(* overlapping ranges, a weekend range, a range whose end is before its    *)
(* start, and a start after the end.                                       *)
(***************************************************************************)
CountRanges == {Excl(2, 2), Excl(3, 9), Excl(0, 4), Excl(5, 6), Excl(8, 7)}
CountDays == {0, 2, 4, 6, 13}

InitCount ==
    /\ today \in InitialDays
    /\ hostWest = FALSE
    /\ \E ex \in RangeLists(CountRanges, MaxExclusions) :
          state = [DefaultState(today) EXCEPT
                      !.plans = <<[NewPlan(1, FALSE, EndNull, Zero) EXCEPT !.exclusions = ex]>>,
                      !.lastLoginDate = EnCA(today)]
    /\ stored = Json(state)
    /\ currentPlanId = 1
    /\ clock = 2
    /\ booted = TRUE
    /\ ops = 0
    /\ snapshots = <<>>
    /\ probe = NoCall

\* countCalculationDays(start, end, plan.exclusions): probe keeps the arguments
\* and the count; the plan's records are left as mergeExclusions leaves them.
CallCountDays(start, end) ==
    /\ OnPlan
    /\ probe' = [fn |-> "countCalculationDays", start |-> start, end |-> end,
                 input |-> Cur.exclusions,
                 value |-> countCalculationDays(start, end, Cur.exclusions)]
    /\ state' = WithPlan(state, currentPlanId,
                         [Cur EXCEPT !.exclusions = MergeRun(Cur.exclusions).input])
    /\ UNCHANGED <<stored, currentPlanId, today, clock, booted, hostWest, ops, snapshots>>

NextCount == \E s \in CountDays, e \in CountDays : CallCountDays(s, e)

SpecCount == InitCount /\ [][NextCount]_vars

(***************************************************************************)
(* calculateProjectedEndDate called directly on a plan whose day is open:  *)
(* goals that are missing, negative (the plan form takes any number),      *)
(* modest and large; savings below, at and above the goal; a target that   *)
(* is absent, zero, negative, 1 or 30; today a Thursday or a Friday; and   *)
(* exclusions that cover a day, a weekend and more, or every day for       *)
(* decades.                                                                *)
(***************************************************************************)
ProjLen == 1
ProjGoals == {Zero, Num(-5), Num(100), Num(10000)}
ProjSaved == {Zero, Num(40), Num(100), Num(-50)}
ProjTargets == {Undefined, Zero, Num(-10), Num(1), Num(30)}
ProjRanges == {Excl(4, 4), Excl(5, 8), Excl(0, 20000)}
ProjDays == {3, 4}

InitProject ==
    /\ today \in ProjDays
    /\ hostWest = FALSE
    /\ \E goal \in ProjGoals, saved \in ProjSaved, target \in ProjTargets,
          ex \in RangeLists(ProjRanges, ProjLen) :
          state = [DefaultState(today) EXCEPT
                      !.plans = <<[NewPlan(1, FALSE, EndNull, goal) EXCEPT
                                      !.totalSaved = saved,
                                      !.dayActive = TRUE,
                                      !.dailyAllowance = Num(100),
                                      !.dailySpent = Zero,
                                      !.dailySavingsGoal = target,
                                      !.exclusions = ex]>>,
                      !.lastLoginDate = EnCA(today)]
    /\ stored = Json(state)
    /\ currentPlanId = 1
    /\ clock = 2
    /\ booted = TRUE
    /\ ops = 0
    /\ snapshots = <<>>
    /\ probe = NoCall

\* calculateProjectedEndDate(plan): probe keeps the plan it was given, the
\* value returned and the loop variables at the end; the plan's exclusion
\* records are left as mergeExclusions leaves them.
CallProjectedEnd ==
    /\ OnPlan
    /\ LET r == ProjectedEndAt(Cur, today)
       IN  /\ probe' = [fn |-> "calculateProjectedEndDate", plan |-> Cur,
                        value |-> r.value, walk |-> r.walk]
           /\ state' = WithPlan(state, currentPlanId, [Cur EXCEPT !.exclusions = r.exclusions])
    /\ UNCHANGED <<stored, currentPlanId, today, clock, booted, hostWest, ops, snapshots>>

SpecProject == InitProject /\ [][CallProjectedEnd]_vars

(***************************************************************************)
(* One plan from its creation on: the page has been opened, the plan has   *)
(* just been created (indefinite, or ending the next day) and its hub is   *)
(* on screen. From there the user makes at most PlanOps changes with the   *)
(* handlers of the hub; days pass and the rollover runs when the page      *)
(* becomes visible or the hub is opened again.                             *)
(***************************************************************************)
PlanOps == 3

InitPlan ==
    /\ today \in InitialDays
    /\ hostWest = FALSE
    /\ \E useEnd \in BOOLEAN :
          state = [checkDailyReset(Load(NoDoc, today), today) EXCEPT
                      !.plans = <<NewPlan(1, useEnd,
                                          IF useEnd THEN EndOn(4) ELSE EndNull,
                                          Num(300))>>]
    /\ stored = Json(state)
    /\ currentPlanId = 1
    /\ clock = 2
    /\ booted = TRUE
    /\ ops = 0
    /\ snapshots = <<[date |-> Load(NoDoc, today).lastLoginDate, savings |-> Zero]>>
    /\ probe = NoCall

NextPlan ==
    \/ Free(VisibilityChange)
    \/ Counted(PlanOps, OpenPlanHub(1))
    \/ \E e \in EndTexts, g \in GoalTexts : Counted(PlanOps, UpdatePlan(e, g))
    \/ \E c \in BOOLEAN : Counted(PlanOps, ToggleEstimate(c))
    \/ \E c \in BOOLEAN : Counted(PlanOps, ToggleManual(c))
    \/ \E c \in BOOLEAN : Counted(PlanOps, TogglePenalty(c))
    \/ \E c \in BOOLEAN : Counted(PlanOps, ToggleUseEndDate(c))
    \/ \E a \in AllowanceTexts, m \in ManualTexts : Counted(PlanOps, StartDay(a, m))
    \/ \E a \in AllowanceTexts : Counted(PlanOps, EditAllowance(a))
    \/ \E m \in ManualTexts : Counted(PlanOps, EditManualSavings(m))
    \/ \E c \in CostTexts, k \in BOOLEAN : Counted(PlanOps, BuyOther(c, k))
    \/ \E n \in BOOLEAN, t \in PriceTexts : Counted(PlanOps, SaveProduct(n, t))
    \/ \E i \in 1..MaxProducts, k \in BOOLEAN : Counted(PlanOps, BuyProduct(i, k))
    \/ \E s, e \in BOOLEAN, r \in ExclusionInputs : Counted(PlanOps, SaveExclusion(s, e, r))
    \/ \E i \in 1..MaxExclusions : Counted(PlanOps, DeleteExclusion(i))
    \/ Tick

SpecPlan == InitPlan /\ [][NextPlan]_vars

(***************************************************************************)
(* Properties                                                              *)
(***************************************************************************)
Ids(doc) == {doc.plans[i].id : i \in 1..Len(doc.plans)}

\* A step in which checkDailyReset runs and finds lastLoginDate differing
\* from today's date string
Rollover ==
    /\ state.lastLoginDate # EnCA(today)
    /\ \/ AppInit
       \/ VisibilityChange
       \/ ShowScreen
       \/ \E pid \in PlanIds : OpenPlanHub(pid)
       \/ DeletePlan

\* The plans a rollover step closes: Open before it and still in the document
Closing == {id \in Ids(state) \cap Ids(state') : Find(state, id).dayActive}

RECURSIVE SumOver(_, _)
SumOver(f, S) ==
    IF S = {} THEN Zero
    ELSE LET x == CHOOSE y \in S : TRUE IN Add(f[x], SumOver(f, S \ {x}))

\* C1: checkDailyReset is idempotent per calendar day: run while lastLoginDate
\* is today's date string it changes nothing in the document and saves nothing,
\* and run a second time right after a rollover it changes nothing more.
C1_RolloverIdempotent ==
    LET once == checkDailyReset(state, today)
    IN  /\ checkDailyReset(once, today) = once
        /\ state.lastLoginDate = EnCA(today) =>
              /\ once = state
              /\ StoredAfterReset(state, today, stored) = stored

\* A day on which the rollover has run, with a plan Open that has spent
C1_Witness ==
    /\ booted
    /\ state.lastLoginDate = EnCA(today)
    /\ Len(state.history) > 0
    /\ \E i \in 1..Len(state.plans) :
          state.plans[i].dayActive /\ Lt(Zero, state.plans[i].dailySpent)

\* C2: at a date-changing rollover every Open plan's totalSaved grows by
\* dailyAllowance - dailySpent and its totalSpent by dailySpent, and the
\* document's totalSavings grows by the sum of those savings.
C2_RolloverTotals ==
    [][Rollover =>
         /\ \A id \in Closing :
               LET p == Find(state, id)
                   q == Find(state', id)
               IN  /\ q.totalSaved = Add(p.totalSaved, Sub(p.dailyAllowance, p.dailySpent))
                   /\ q.totalSpent = Add(p.totalSpent, p.dailySpent)
         /\ state'.totalSavings =
               Add(state.totalSavings,
                   SumOver([id \in Closing |->
                               Sub(Find(state, id).dailyAllowance, Find(state, id).dailySpent)],
                           Closing))]_vars

\* A closed day on which money was spent: the plan saved less than it spent
C2_Witness ==
    \E i \in 1..Len(state.plans) :
        /\ Len(state.plans[i].history) > 0
        /\ Lt(Zero, state.plans[i].totalSpent)
        /\ state.plans[i].totalSaved # state.plans[i].totalSpent
        /\ state.totalSavings = state.plans[i].totalSaved

\* C3: at a date-changing rollover an Open plan's penaltyDebt grows by
\* dailySavingsGoal - actualSavings exactly when penaltyMode is on, estimateMode
\* or manualSavingsMode is on and actualSavings < dailySavingsGoal; otherwise it
\* is unchanged.
C3_PenaltyAccrual ==
    [][Rollover =>
         \A id \in Closing :
             LET p == Find(state, id)
                 actualSavings == Sub(p.dailyAllowance, p.dailySpent)
             IN  Find(state', id).penaltyDebt =
                    IF /\ p.penaltyMode
                       /\ p.estimateMode \/ p.manualSavingsMode
                       /\ Lt(actualSavings, p.dailySavingsGoal)
                    THEN Add(p.penaltyDebt, Sub(p.dailySavingsGoal, actualSavings))
                    ELSE p.penaltyDebt]_vars

\* A plan whose closed day fell short of its target and left a debt
C3_Witness ==
    \E i \in 1..Len(state.plans) :
        /\ Len(state.plans[i].history) > 0
        /\ Lt(Zero, state.plans[i].penaltyDebt)

\* C4: right after a date-changing rollover no plan is Open, and every plan
\* that was Open has dailyAllowance, dailySpent and dailySavingsGoal at 0.
C4_RolloverResets ==
    [][Rollover =>
         /\ \A id \in Ids(state') : ~Find(state', id).dayActive
         /\ \A id \in Closing :
               /\ Find(state', id).dailyAllowance = Zero
               /\ Find(state', id).dailySpent = Zero
               /\ Find(state', id).dailySavingsGoal = Zero]_vars

\* Two plans, one of them closed by the rollover of today
C4_Witness ==
    /\ state.lastLoginDate = EnCA(today)
    /\ Len(state.plans) = 2
    /\ \A i \in 1..Len(state.plans) : ~state.plans[i].dayActive
    /\ \E i \in 1..Len(state.plans) :
          /\ Len(state.plans[i].history) > 0
          /\ state.plans[i].history[Len(state.plans[i].history)].date = EnCA(today - 1)
          /\ state.plans[i].dailyAllowance = Zero
          /\ state.plans[i].dailySpent = Zero
          /\ state.plans[i].dailySavingsGoal = Zero

\* C5: a plan goes from Open to Closed only in a date-changing rollover, and
\* from Closed to Open only by the start-day handler on that plan.
C5_DayStateMachine ==
    [][\A id \in Ids(state) \cap Ids(state') :
          LET p == Find(state, id)
              q == Find(state', id)
          IN  /\ p.dayActive /\ ~q.dayActive => Rollover
              /\ ~p.dayActive /\ q.dayActive =>
                    /\ id = currentPlanId
                    /\ \E a \in AllowanceTexts, m \in ManualTexts : StartDay(a, m)]_vars

\* A plan opened again after a rollover closed it
C5_Witness ==
    \E i \in 1..Len(state.plans) :
        /\ Len(state.plans[i].history) > 0
        /\ state.plans[i].dayActive

\* h2 is h with one entry appended at the end, the oldest entry evicted from
\* the front if h was full
AppendedTo(h, entry, h2) ==
    h2 = Append(IF Len(h) < HistoryCap THEN h ELSE Tail(h), entry)

HistoriesBounded ==
    /\ Len(state.history) <= HistoryCap
    /\ \A i \in 1..Len(state.plans) : Len(state.plans[i].history) <= HistoryCap

\* C6: the document's history and every plan's history never hold more than 30
\* entries, and a step changes a history only by appending one entry at its end,
\* evicting from the front when it was full.
C6_HistoriesBounded ==
    /\ HistoriesBounded
    /\ [][/\ HistoriesBounded'
          /\ \/ state'.history = state.history
             \/ /\ Len(state'.history) > 0
                /\ AppendedTo(state.history, state'.history[Len(state'.history)],
                              state'.history)
          /\ \A id \in Ids(state) \cap Ids(state') :
                LET h == Find(state, id).history
                    h2 == Find(state', id).history
                IN  \/ h2 = h
                    \/ Len(h2) > 0 /\ AppendedTo(h, h2[Len(h2)], h2)]_vars

\* Both histories full after more than 30 rollovers, the plan's oldest days gone
C6_Witness ==
    /\ Len(state.history) = HistoryCap
    /\ Len(snapshots) > HistoryCap
    /\ \E i \in 1..Len(state.plans) :
          /\ Len(state.plans[i].history) = HistoryCap
          /\ state.plans[i].history[1].date[2] >= 5

Min(a, b) == IF a < b THEN a ELSE b

\* C7: after n date-changing rollovers from an empty history, the document's
\* history holds the min(n, 30) most recent snapshots, oldest first.
C7_HistoryIsLastThirty ==
    LET n == Len(snapshots)
        k == Min(n, HistoryCap)
    IN  /\ Len(state.history) = k
        /\ state.history = [i \in 1..k |-> snapshots[n - k + i]]

\* Forty rollovers
C7_Witness ==
    /\ Len(snapshots) = 40
    /\ Len(state.history) = HistoryCap
    /\ state.totalSavings # Zero

\* C8: at a date-changing rollover a plan that was Open gets exactly one new
\* history entry, dated with the lastLoginDate from before the rollover and
\* holding its totalSaved with the day's savings added; a plan that was Closed
\* keeps its accumulators, day fields and history.
C8_PlanHistoryEntry ==
    [][Rollover =>
         \A id \in Ids(state) \cap Ids(state') :
             LET p == Find(state, id)
                 q == Find(state', id)
             IN  IF p.dayActive
                 THEN AppendedTo(p.history,
                                 [date |-> state.lastLoginDate,
                                  totalSaved |-> Add(p.totalSaved,
                                                     Sub(p.dailyAllowance, p.dailySpent))],
                                 q.history)
                 ELSE /\ q.history = p.history
                      /\ q.totalSaved = p.totalSaved
                      /\ q.totalSpent = p.totalSpent
                      /\ q.penaltyDebt = p.penaltyDebt
                      /\ q.dayActive = p.dayActive
                      /\ q.dailyAllowance = p.dailyAllowance
                      /\ q.dailySpent = p.dailySpent
                      /\ q.dailySavingsGoal = p.dailySavingsGoal]_vars

\* Today's rollover has closed one plan and passed over another
C8_Witness ==
    /\ state.lastLoginDate = EnCA(today)
    /\ \E i, j \in 1..Len(state.plans) :
          /\ Len(state.plans[i].history) = 1
          /\ state.plans[i].history[1].date = EnCA(today - 1)
          /\ state.plans[i].history[1].totalSaved # Zero
          /\ Len(state.plans[j].history) = 0
          /\ ~state.plans[j].dayActive

\* C9: every run of checkDailyReset that finds lastLoginDate differing from
\* today, however many days went by and whether or not a plan is Open, adds each
\* Open plan's day once, appends exactly one document-history entry (the
\* previous lastLoginDate, the updated totalSavings) and leaves lastLoginDate at
\* today.
C9_OneRolloverPerDateChange ==
    [][Rollover =>
         /\ state'.lastLoginDate = EnCA(today)
         /\ AppendedTo(state.history,
                       [date |-> state.lastLoginDate, savings |-> state'.totalSavings],
                       state'.history)
         /\ \A id \in Closing :
               /\ Find(state', id).totalSaved =
                     Add(Find(state, id).totalSaved,
                         Sub(Find(state, id).dailyAllowance, Find(state, id).dailySpent))
               /\ Len(Find(state', id).history) = Len(Find(state, id).history) + 1]_vars

\* A rollover two days after the day it closed
C9_Witness ==
    /\ state.lastLoginDate = EnCA(today)
    /\ Len(state.history) > 0
    /\ state.history[Len(state.history)].date = EnCA(today - 2)
    /\ \E i \in 1..Len(state.plans) :
          /\ Len(state.plans[i].history) = 1
          /\ state.plans[i].history[1].date = EnCA(today - 2)

\* C10: every plan has exactly one of estimateMode and manualSavingsMode on.
C10_ExactlyOneMode ==
    \A i \in 1..Len(state.plans) :
        state.plans[i].estimateMode # state.plans[i].manualSavingsMode

\* Merged form: ascending by start, every range starting after the end of
\* every range before it
IsMerged(ex) ==
    \A i, j \in 1..Len(ex) :
        i < j => ex[i].start < ex[j].start /\ ex[i].end < ex[j].start

\* C11: when save-excl-btn (with both dates given) or deleteExclusion has run,
\* the exclusions of the plan it worked on are in merged form, whatever ranges
\* were inserted or deleted before.
C11_ExclusionsMergedAfterEdit ==
    [][\/ /\ HasPlan(state', currentPlanId)
          /\ IsMerged(Find(state', currentPlanId).exclusions)
       \/ ~(\/ \E r \in ExclusionInputs : SaveExclusion(TRUE, TRUE, r)
            \/ \E i \in 1..MaxExclusions : DeleteExclusion(i))]_vars

\* Two overlapping ranges were inserted: the document saved by the handler
\* holds both, the plan holds the one range they merge to
C11_Witness ==
    /\ OnPlan
    /\ Cur.exclusions = <<Excl(2, 4)>>
    /\ Len(Find(stored, currentPlanId).exclusions) = 2

(***************************************************************************)
(* calculateRequiredDaily                                                  *)
(***************************************************************************)
\* Day d lies in one of the ranges of ex, ends included
Covers(ex, d) == \E i \in 1..Len(ex) : ex[i].start <= d /\ d <= ex[i].end

\* A qualifying day: Monday to Friday (day 0 is a Monday) and not excluded
Qualifying(ex, d) == d % 7 \notin {5, 6} /\ ~Covers(ex, d)

QualifyingDays(ex, from, to) == Cardinality({d \in from..to : Qualifying(ex, d)})

\* The last call of calculateRequiredDaily: its plan, allowance and value
Called == probe.fn = "calculateRequiredDaily"

FixedWithGoal(plan) == plan.useEndDate /\ IsNum(plan.goal) /\ plan.goal # Zero

\* C12: calculateRequiredDaily returns a value between 0 and the allowance it
\* was given, for every plan and every allowance >= 0.
C12_TargetWithinAllowance ==
    Called /\ Le(Zero, probe.allowance)
    => Le(Zero, probe.value) /\ Le(probe.value, probe.allowance)

\* C13: when today lies in one of the plan's exclusion ranges (ends included),
\* calculateRequiredDaily returns 0, whatever the mode, end date, goal, savings
\* and allowance.
C13_ExcludedDayTargetZero ==
    Called /\ Covers(probe.plan.exclusions, today) => probe.value = Zero

\* Called on the last day of an exclusion range for a manual plan with a
\* stored target, and for a fixed-end plan with a goal and a full allowance
C13_Witness ==
    /\ Called
    /\ \E i \in 1..Len(probe.plan.exclusions) : probe.plan.exclusions[i].end = today
    /\ probe.allowance = Num(100)
    /\ probe.value = Zero
    /\ \/ probe.plan.manualSavingsMode /\ probe.plan.dailySavingsGoal = Num(80)
       \/ FixedWithGoal(probe.plan) /\ probe.plan.endDate = EndOn(11)

\* C14: for a plan without an end date, on a day that is not excluded,
\* calculateRequiredDaily returns half the allowance when the plan is not in
\* manual mode and the stored dailySavingsGoal (0 when unset) when it is,
\* whatever the goal and the savings.
C14_IndefiniteTarget ==
    Called /\ ~probe.plan.useEndDate /\ ~Covers(probe.plan.exclusions, today)
    => IF probe.plan.manualSavingsMode
       THEN probe.value = (IF probe.plan.dailySavingsGoal = Undefined
                           THEN Zero ELSE probe.plan.dailySavingsGoal)
       ELSE Add(probe.value, probe.value) = probe.allowance

\* A manual plan without an end date, with a goal and savings, whose stored
\* target came back
C14_Witness ==
    /\ Called
    /\ ~probe.plan.useEndDate
    /\ ~Covers(probe.plan.exclusions, today)
    /\ probe.plan.manualSavingsMode
    /\ probe.plan.goal = Num(1000)
    /\ probe.plan.totalSaved = Num(200)
    /\ probe.allowance = Num(50)
    /\ probe.value = Num(80)

\* C15: for a plan with an end date and a non-zero goal, on a day that is not
\* excluded and not after the end date, with no qualifying day from today
\* through the end date, calculateRequiredDaily returns the whole allowance.
C15_NoDaysLeftWholeAllowance ==
    /\ Called
    /\ FixedWithGoal(probe.plan)
    /\ ~Covers(probe.plan.exclusions, today)
    /\ probe.plan.endDate[1] = "date"
    /\ today <= probe.plan.endDate[2]
    /\ QualifyingDays(probe.plan.exclusions, today, probe.plan.endDate[2]) = 0
    => probe.value = probe.allowance

\* C16: for a plan with an end date and a non-zero goal, when today is a
\* qualifying day and no later day up to the end date is one,
\* calculateRequiredDaily returns the whole allowance.
C16_LastQualifyingDayWholeAllowance ==
    /\ Called
    /\ FixedWithGoal(probe.plan)
    /\ probe.plan.endDate[1] = "date"
    /\ today <= probe.plan.endDate[2]
    /\ Qualifying(probe.plan.exclusions, today)
    /\ QualifyingDays(probe.plan.exclusions, today + 1, probe.plan.endDate[2]) = 0
    => probe.value = probe.allowance

\* The number of qualifying days from today through the day the plan's end
\* date denotes once calculateRequiredDaily has parsed it (its daysLeft)
DaysLeftOf(plan) ==
    QualifyingDays(plan.exclusions, today, EndLocalDay(plan.endDate, hostWest))

\* The call got as far as the formula: end date and goal > 0, today not
\* excluded and not after the end date, daysLeft > 0
InFormula ==
    /\ Called
    /\ FixedWithGoal(probe.plan)
    /\ Lt(Zero, probe.plan.goal)
    /\ ~Covers(probe.plan.exclusions, today)
    /\ probe.plan.endDate[1] # "empty"
    /\ today <= EndLocalDay(probe.plan.endDate, hostWest)
    /\ DaysLeftOf(probe.plan) > 0

\* max(0, (goal - totalSaved) / daysLeft)
RawOf(plan) ==
    LET remaining == Sub(plan.goal, plan.totalSaved)
    IN  IF Lt(remaining, Zero) THEN Zero ELSE DivInt(remaining, DaysLeftOf(plan))

\* The case of the surcharge: not manual, allowance >= 80, raw target < 50
SurchargeCase ==
    /\ ~probe.plan.manualSavingsMode
    /\ Le(Num(80), probe.allowance)
    /\ Lt(RawOf(probe.plan), Num(50))

LesserOf(a, b) == IF Lt(b, a) THEN b ELSE a

C18_SurchargeRule ==
    /\ InFormula =>
          probe.value =
             LesserOf(probe.allowance,
                      IF SurchargeCase
                      THEN Add(RawOf(probe.plan), Mul(probe.allowance, Rat(1, 5)))
                      ELSE RawOf(probe.plan))
    /\ (/\ Called
        /\ ~probe.plan.useEndDate
        /\ ~probe.plan.manualSavingsMode
        /\ ~Covers(probe.plan.exclusions, today))
       => Add(probe.value, probe.value) = probe.allowance

\* Goal 10000, 9900 saved, 10 days left, allowance 90: 10 + 18 = 28
C18_Witness ==
    /\ InFormula
    /\ SurchargeCase
    /\ probe.plan.goal = Num(10000)
    /\ probe.plan.totalSaved = Num(9900)
    /\ DaysLeftOf(probe.plan) = 10
    /\ probe.allowance = Num(90)
    /\ probe.value = Num(28)

(***************************************************************************)
(* mergeExclusions                                                         *)
(***************************************************************************)
Merged == probe.fn = "mergeExclusions"

\* C19: mergeExclusions is idempotent: called on the list it returned, it
\* returns that list again, whatever list of ranges the first call was given.
C19_MergeIdempotent ==
    Merged /\ probe.calls = 2 => probe.again = probe.value

\* An unsorted list with a duplicate and an overlap, merged twice
C19_Witness ==
    /\ Merged
    /\ probe.calls = 2
    /\ probe.input = <<Excl(3, 9), Excl(0, 4), Excl(3, 9)>>
    /\ probe.again = <<Excl(0, 9)>>

\* The list ranges sorted by start, ranges of equal start in the order given
RECURSIVE InsertByStart(_, _)
InsertByStart(r, sorted) ==
    IF sorted = <<>> THEN <<r>>
    ELSE IF r.start < Head(sorted).start THEN <<r>> \o sorted
    ELSE <<Head(sorted)>> \o InsertByStart(r, Tail(sorted))

RECURSIVE SortByStart(_)
SortByStart(ranges) ==
    IF ranges = <<>> THEN <<>>
    ELSE InsertByStart(ranges[Len(ranges)], SortByStart(SubSeq(ranges, 1, Len(ranges) - 1)))

\* One pass over a sorted list: the next range is merged into the current one
\* exactly when next.start <= current.end, the end becoming the greater of the
\* two; otherwise the current range is put out and the next becomes current.
RECURSIVE OnePass(_, _, _)
OnePass(rest, current, out) ==
    IF rest = <<>> THEN Append(out, current)
    ELSE LET next == Head(rest)
         IN  IF next.start <= current.end
             THEN OnePass(Tail(rest),
                          Excl(current.start,
                               IF next.end > current.end THEN next.end ELSE current.end),
                          out)
             ELSE OnePass(Tail(rest), next, Append(out, current))

\* Ascending by start, each range starting after the end of the one before it
SortedApart(ex) ==
    \A i \in 1..(Len(ex) - 1) :
        ex[i].start <= ex[i + 1].start /\ ex[i + 1].start > ex[i].end

\* C20: the list mergeExclusions returns is sorted by start with every range
\* starting after the end of the range before it; it is what one pass over the
\* sorted input gives, merging exactly when next.start <= current.end and
\* keeping the greater end; an empty input gives an empty list.
C20_MergeResult ==
    Merged =>
       /\ SortedApart(probe.value)
       /\ probe.value = IF probe.input = <<>> THEN <<>>
                        ELSE LET sorted == SortByStart(probe.input)
                             IN  OnePass(Tail(sorted), Head(sorted), <<>>)

\* 2024-01-01..05, 2024-01-04..10 and 2024-02-01..02 merge to 2024-01-01..10
\* and 2024-02-01..02
C20_Witness ==
    /\ Merged
    /\ probe.input = <<Excl(0, 4), Excl(3, 9), Excl(31, 32)>>
    /\ probe.value = <<Excl(0, 9), Excl(31, 32)>>

\* C21: mergeExclusions leaves the records of the list it is given as they
\* were: after the call every record of the plan's exclusions has the start
\* and end it had before.
C21_MergeLeavesInput ==
    Merged => Find(state, currentPlanId).exclusions = probe.input

Counted22 == probe.fn = "countCalculationDays"

\* C22: countCalculationDays(start, end, exclusions) is the number of calendar
\* days d with start <= d <= end that fall on Monday to Friday and lie in no
\* range of the list it was given, range ends included; it is 0 when start is
\* after end.
C22_CountQualifyingDays ==
    Counted22 =>
        /\ probe.value = QualifyingDays(probe.input, probe.start, probe.end)
        /\ probe.start > probe.end => probe.value = 0

\* Mon 2024-01-01 to Fri 2024-01-05 with Wed 2024-01-03 excluded gives 4
C22_Witness ==
    /\ Counted22
    /\ probe.start = 0
    /\ probe.end = 4
    /\ probe.input = <<Excl(2, 2)>>
    /\ probe.value = 4

Projected == probe.fn = "calculateProjectedEndDate"

Positive(v) == Lt(Zero, v)

RemainingOf(plan) == Sub(plan.goal, OrZero(plan.totalSaved))

\* The walk stopped on the safety counter with qualifying days still missing
CeilingHit ==
    /\ probe.value.kind = "date"
    /\ probe.walk.safety >= SafetyCeiling
    /\ Lt(Mul(Num(probe.walk.found), probe.plan.dailySavingsGoal), RemainingOf(probe.plan))

\* k = ceil(remaining / target): the least whole number of targets that
\* reaches the remaining amount
IsDaysNeeded(plan, k) ==
    /\ Le(RemainingOf(plan), Mul(Num(k), plan.dailySavingsGoal))
    /\ Lt(Mul(Num(k - 1), plan.dailySavingsGoal), RemainingOf(plan))

\* The date part of the contract: D is after today, is a qualifying day, and
\* tomorrow..D holds exactly daysNeeded qualifying days
ProjectedDateRight ==
    LET D == probe.value.day
    IN  /\ probe.value.kind = "date"
        /\ D > today
        /\ Qualifying(probe.plan.exclusions, D)
        /\ IsDaysNeeded(probe.plan, QualifyingDays(probe.plan.exclusions, today + 1, D))

\* C23: calculateProjectedEndDate returns null when the goal or the daily
\* target is missing or not positive, "Goal Met!" when goal - totalSaved <= 0,
\* and otherwise (the ceiling not reached) the qualifying day D after today
\* such that tomorrow..D holds exactly ceil((goal - totalSaved) / target)
\* qualifying days.
C23_ProjectedEndDate ==
    Projected =>
        LET plan == probe.plan
            usable == Positive(plan.goal) /\ Positive(plan.dailySavingsGoal)
        IN  /\ ~usable => probe.value = ProjNull
            /\ usable /\ Le(RemainingOf(plan), Zero) => probe.value = ProjMet
            /\ usable /\ Positive(RemainingOf(plan)) /\ ~CeilingHit => ProjectedDateRight

\* C24: the forward walk always ends: it makes at most 10,000 passes, one
\* calendar day each, whatever the goal, the target and the exclusions; it
\* ends either with the days needed found or on the ceiling, and on the
\* ceiling the value returned is the date the walk had reached, 10,000 days
\* after tomorrow.
C24_WalkBounded ==
    Projected =>
        /\ probe.walk.safety <= SafetyCeiling
        /\ probe.value.kind = "date" =>
              /\ probe.value.day = probe.walk.cur
              /\ \/ probe.walk.safety = SafetyCeiling
                 \/ IsDaysNeeded(probe.plan, probe.walk.found)
        /\ CeilingHit => probe.value.day = today + 1 + SafetyCeiling

\* every day from 2024-01-01 on excluded: the walk finds nothing and stops
\* on the ceiling
C24_Witness ==
    /\ Projected
    /\ CeilingHit
    /\ probe.plan.exclusions = <<Excl(0, 20000)>>
    /\ probe.walk.found = 0
    /\ probe.walk.safety = SafetyCeiling
    /\ probe.value = ProjDate(today + 1 + SafetyCeiling)

\* The runs of a handler on an input it rejects
RejectingRun ==
    \/ \E m \in ManualTexts : StartDay(EmptyText, m)
    \/ \E n \in BOOLEAN, s \in BOOLEAN, u \in BOOLEAN, e \in EndTexts, g \in GoalTexts :
          /\ ~n \/ ~s \/ (u /\ e = EndEmpty)
          /\ SaveNewPlan(n, s, u, e, g)
    \/ \E sg \in BOOLEAN, eg \in BOOLEAN, r \in ExclusionInputs :
          /\ ~sg \/ ~eg
          /\ SaveExclusion(sg, eg, r)
    \/ EditAllowance(EmptyText)
    \/ EditManualSavings(EmptyText)
    \/ \E p \in PriceTexts : SaveProduct(FALSE, p)

\* C25: an operation that rejects its input (a start-day with an empty
\* allowance, a plan creation without name, start date or required end date,
\* an exclusion without one of its dates, an edit with no number, a product
\* without a name) changes neither the document in memory nor the stored one.
C25_RejectionLeavesDocument ==
    [][UNCHANGED <<state, stored>> \/ ~RejectingRun]_vars

\* A closed plan with an exclusion is on screen, another plan and another
\* exclusion can still be added, and the allowance field is empty: start-day,
\* a plan form without a name and an exclusion form without a date each
\* return at once.
C25_Witness ==
    /\ OnPlan
    /\ ~Cur.dayActive
    /\ Len(Cur.exclusions) > 0
    /\ Len(Cur.exclusions) < MaxExclusions
    /\ Len(state.plans) < MaxPlans
    /\ \E m \in ManualTexts : ENABLED StartDay(EmptyText, m)

\* C26: whenever an operation has run to completion the stored document is
\* the document in memory (as JSON writes it); in particular a plan's stored
\* exclusions are its exclusions in memory after one is added or deleted.
C26_StoredEqualsMemory ==
    booted => stored = Json(state)

\* C27: from a freshly created plan on, whatever is bought, edited or rolled
\* over, no plan's totalSpent or penaltyDebt is ever below 0.
C27_SpentAndDebtNotNegative ==
    \A i \in 1..Len(state.plans) :
        /\ ~Lt(state.plans[i].totalSpent, Zero)
        /\ ~Lt(state.plans[i].penaltyDebt, Zero)

\* What "parseFloat(text) || 0" makes of the manual-target field: the number
\* typed, 0 for an empty field
LiteralTarget(manualText) == IF manualText = EmptyText THEN Zero ELSE manualText

\* A start-day, accepted, of a plan in manual mode
ManualStart(a, m) ==
    /\ a # EmptyText
    /\ OnPlan
    /\ Cur.manualSavingsMode
    /\ StartDay(a, m)

\* An allowance, exclusion or settings edit of a plan that is in manual mode
\* before and after it
EditWhileManual ==
    /\ OnPlan
    /\ Cur.manualSavingsMode
    /\ Find(state', currentPlanId).manualSavingsMode
    /\ \/ \E a \in AllowanceTexts : EditAllowance(a)
       \/ \E s, e \in BOOLEAN, r \in ExclusionInputs : SaveExclusion(s, e, r)
       \/ \E i \in 1..MaxExclusions : DeleteExclusion(i)
       \/ \E e \in EndTexts, g \in GoalTexts : UpdatePlan(e, g)
       \/ \E c \in BOOLEAN : TogglePenalty(c)
       \/ \E c \in BOOLEAN : ToggleUseEndDate(c)

\* C29: a start-day of a plan in manual mode sets dailySavingsGoal to the
\* manual input as typed (0 for an empty field), whatever the allowance and
\* whether or not today is excluded; and while the plan stays in manual mode
\* an allowance, exclusion or settings edit leaves dailySavingsGoal as it is.
C29_ManualTargetLiteral ==
    [][/\ \A a \in AllowanceTexts, m \in ManualTexts :
             ManualStart(a, m) =>
                 Find(state', currentPlanId).dailySavingsGoal = LiteralTarget(m)
       /\ \/ ~HasPlan(state, currentPlanId)
          \/ ~HasPlan(state', currentPlanId)
          \/ Find(state', currentPlanId).dailySavingsGoal = Cur.dailySavingsGoal
          \/ ~EditWhileManual]_vars

\* A manual plan started on an excluded day with target 80 and an allowance
\* of -10: the target is above the allowance and is not 0
C29_Witness ==
    /\ OnPlan
    /\ Cur.manualSavingsMode
    /\ Cur.dayActive
    /\ TodayExcluded(Cur, today)
    /\ Cur.dailySavingsGoal = Num(80)
    /\ Lt(Cur.dailyAllowance, Cur.dailySavingsGoal)

\* 0 or absent (an absent field reads undefined, and null once reloaded)
ZeroOrAbsent(v) == v \in {Zero, Undefined, Null}

\* C30: a plan whose day is closed (dayActive false) has dailyAllowance,
\* dailySpent and dailySavingsGoal each 0 or absent, in every reachable state.
C30_ClosedPlanDayFieldsZero ==
    \A i \in 1..Len(state.plans) :
        ~state.plans[i].dayActive =>
            /\ ZeroOrAbsent(state.plans[i].dailyAllowance)
            /\ ZeroOrAbsent(state.plans[i].dailySpent)
            /\ ZeroOrAbsent(state.plans[i].dailySavingsGoal)

\* The document without the plan on screen, all else as it is
WithoutCurrent == [state EXCEPT !.plans = RemoveAt(@, FindIdx(state, currentPlanId))]

\* C28, as stated: deleting a plan removes exactly that plan; totalSavings,
\* history, lastLoginDate and every other plan are as before.
C28_DeleteRemovesOnlyThePlan ==
    [][DeletePlan => state' = WithoutCurrent]_vars

\* C28, amended: deleting a plan removes exactly that plan; while
\* lastLoginDate is today's date nothing else in the document changes, also
\* when the plan is Open or has contributed to totalSavings. When the date has
\* changed since the last rollover, the showScreen that ends the handler runs
\* the rollover on the plans that remain, and the deleted plan's open day is
\* not accrued.
C28_DeleteThenRollover ==
    [][DeletePlan =>
          /\ Ids(state') = Ids(state) \ {currentPlanId}
          /\ state.lastLoginDate = EnCA(today) => state' = WithoutCurrent
          /\ state.lastLoginDate # EnCA(today) =>
                /\ state'.lastLoginDate = EnCA(today)
                /\ state'.totalSavings =
                      Add(state.totalSavings,
                          SumOver([id \in Closing |-> ActualSavings(Find(state, id))], Closing))]_vars

\* The only plan, which has put savings into the document total, has been
\* deleted: the total is still there
C28_Witness ==
    /\ booted
    /\ currentPlanId # NoPlan
    /\ ~HasPlan(state, currentPlanId)
    /\ state.plans = <<>>
    /\ Lt(Zero, state.totalSavings)

\* The three mode flags of the plan on screen are as they were
ModesUnchanged ==
    LET before == Cur
        after == Find(state', currentPlanId)
    IN  /\ after.estimateMode = before.estimateMode
        /\ after.manualSavingsMode = before.manualSavingsMode
        /\ after.penaltyMode = before.penaltyMode

\* C31: no plan ever has estimateMode and manualSavingsMode both true;
\* switching estimate on switches manual off, switching manual on switches
\* estimate off, switching manual off switches estimate on, and toggling
\* penaltyMode changes neither of the two.
C31_ModesExclusive ==
    [][/\ \A i \in 1..Len(state'.plans) :
             ~(state'.plans[i].estimateMode /\ state'.plans[i].manualSavingsMode)
       /\ \/ ~HasPlan(state, currentPlanId)
          \/ ~HasPlan(state', currentPlanId)
          \/ ModesUnchanged
          \/ LET after == Find(state', currentPlanId)
             IN  /\ ToggleEstimate(TRUE) => ~after.manualSavingsMode
                 /\ ToggleManual(TRUE) => ~after.estimateMode
                 /\ ToggleManual(FALSE) => after.estimateMode
                 /\ (\E c \in BOOLEAN : TogglePenalty(c)) =>
                        /\ after.estimateMode = Cur.estimateMode
                        /\ after.manualSavingsMode = Cur.manualSavingsMode]_vars

\* A plan switched to manual (estimate went off with it) whose penalty flag
\* was then switched off
C31_Witness ==
    /\ OnPlan
    /\ Cur.manualSavingsMode
    /\ ~Cur.estimateMode
    /\ ~Cur.penaltyMode

\* The operations that go through refreshPlanTarget
RefreshingRun ==
    \/ \E a \in AllowanceTexts : EditAllowance(a)
    \/ \E e \in EndTexts, g \in GoalTexts : UpdatePlan(e, g)
    \/ \E c \in BOOLEAN : ToggleUseEndDate(c)
    \/ \E c \in BOOLEAN : ToggleEstimate(c)
    \/ \E c \in BOOLEAN : ToggleManual(c)
    \/ \E s, e \in BOOLEAN, r \in ExclusionInputs : SaveExclusion(s, e, r)
    \/ \E i \in 1..MaxExclusions : DeleteExclusion(i)

\* An accepted start-day
StartingRun == \E a \in AllowanceTexts \ {EmptyText}, m \in ManualTexts : StartDay(a, m)

\* plan.dailySavingsGoal is calculateRequiredDaily(plan, plan.dailyAllowance)
TargetCurrent(plan) ==
    plan.dailySavingsGoal = RequiredDailyAt(plan, plan.dailyAllowance, today, hostWest).value

\* C32: after a start-day, an allowance edit, a plan update, an end-date or
\* mode toggle, or an exclusion add or delete, a plan that is Open and not in
\* manual mode has dailySavingsGoal = calculateRequiredDaily(plan,
\* dailyAllowance) on its settings as they now are; on a plan that is then
\* Closed or in manual mode the edits and toggles leave dailySavingsGoal as
\* it was.
C32_TargetFollowsSettings ==
    [][\/ ~HasPlan(state, currentPlanId)
       \/ ~HasPlan(state', currentPlanId)
       \/ LET after == Find(state', currentPlanId)
          IN  /\ (StartingRun \/ RefreshingRun) /\ after.dayActive /\ ~after.manualSavingsMode
                    => TargetCurrent(after)
              /\ RefreshingRun /\ (~after.dayActive \/ after.manualSavingsMode)
                    => after.dailySavingsGoal = Cur.dailySavingsGoal]_vars

\* The document total is the sum of the plans' totals
Balanced(doc) ==
    doc.totalSavings =
        SumOver([i \in 1..Len(doc.plans) |-> OrZero(doc.plans[i].totalSaved)], 1..Len(doc.plans))

\* C33: starting from the empty document (totalSavings 0, no plans), as long
\* as no plan is deleted the document's totalSavings is the sum of totalSaved
\* over all plans: the empty document is balanced and every step other than a
\* deletion keeps a balanced document balanced.
C33_TotalIsSumOfPlans ==
    /\ Balanced(state)
    /\ [][Balanced(state') \/ ~Balanced(state) \/ DeletePlan]_vars

\* Two plans, one of which has closed a day with savings: the document total
\* is that plan's total
C33_Witness ==
    /\ Len(state.plans) = 2
    /\ Lt(Zero, state.totalSavings)
    /\ \E i \in 1..2 : state.plans[i].totalSaved = Zero
    /\ Balanced(state)

\* The step is a purchase that was accepted and adds its amount to dailySpent
AcceptedPurchase ==
    LET after == Find(state', currentPlanId)
    IN  \/ \E c \in CostTexts, k \in BOOLEAN :
              /\ BuyOther(c, k)
              /\ after.dailySpent = Add(Cur.dailySpent, OtherCost(c))
        \/ \E i \in 1..Len(Cur.products), k \in BOOLEAN :
              /\ BuyProduct(i, k)
              /\ after.dailySpent = Add(Cur.dailySpent, Cur.products[i])

\* C34: what a rollover adds to a plan's totalSpent is the sum of the
\* purchases accepted since the plan's day was started. Step by step: a
\* start-day of a Closed plan begins the day's spending at 0; while the plan
\* stays Open its dailySpent changes only by an accepted purchase, which adds
\* its amount, whatever else is done (edits, toggles, updates, further
\* start-days); and the rollover adds dailySpent to totalSpent.
C34_SpendingNeverLost ==
    [][\/ ~HasPlan(state, currentPlanId)
       \/ ~HasPlan(state', currentPlanId)
       \/ LET after == Find(state', currentPlanId)
          IN  /\ ~Cur.dayActive /\ after.dayActive => after.dailySpent = Zero
              /\ Cur.dayActive /\ after.dayActive =>
                    \/ after.dailySpent = Cur.dailySpent
                    \/ AcceptedPurchase
              /\ Cur.dayActive /\ ~after.dayActive =>
                    after.totalSpent = Add(Cur.totalSpent, OrZero(Cur.dailySpent))]_vars

\* The calendar day a date string denotes, whichever of the two formats it
\* is written in
CalendarDay(date) == date[2]

\* C35: the dates of the document-history entries are strictly increasing
\* (no two entries carry the same date), each entry's date is the
\* lastLoginDate that was in force before the rollover that appended it, and
\* every entry's date is strictly earlier than the current lastLoginDate.
\* The date of the model never moves backwards.
C35_HistoryDatesIncrease ==
    LET h == state.history
        n == Len(h)
        m == Len(snapshots)
    IN  /\ \A i \in 1..n, j \in 1..n :
              i < j => CalendarDay(h[i].date) < CalendarDay(h[j].date)
        /\ n <= m
        /\ \A i \in 1..n : h[i].date = snapshots[m - n + i].date
        /\ \A i \in 1..n : CalendarDay(h[i].date) < CalendarDay(state.lastLoginDate)

\* C38: started with no stored document, the default lastLoginDate of
\* Store.load denotes today in the form the rollover compares against, so the
\* first checkDailyReset of that day does nothing: no document-history entry
\* is appended, no field changes, nothing is saved.
C38_FirstResetIsNoOp ==
    [][(stored = NoDoc /\ AppInit) => UNCHANGED <<state, stored>>]_vars

\* The days on which a range of MergeRanges can start or end, and one beyond
MergeDays == 0..33

\* C37: merging preserves coverage: a calendar day lies in some range of
\* mergeExclusions(R) exactly when it lies in some range of R, ends included;
\* so isDateInExclusions answers the same on the raw list and on the merged
\* one.
C37_MergePreservesCoverage ==
    Merged =>
        \A d \in MergeDays :
            /\ Covers(probe.value, d) <=> Covers(probe.input, d)
            /\ isDateInExclusions(d, probe.value) <=> isDateInExclusions(d, probe.input)

\* Two overlapping ranges given out of order, and one whose end is before
\* its start: one range comes back
C37_Witness ==
    /\ Merged
    /\ probe.input = <<Excl(3, 9), Excl(7, 6), Excl(0, 4)>>
    /\ probe.value = <<Excl(0, 9)>>

\* C36: once the date has moved past lastLoginDate, and a rollover trigger
\* (application start, visibility regain, screen switch) fires afterwards,
\* a state follows in which lastLoginDate is today's date and no plan of the
\* document is Open, so every plan that was Open has been Closed (or deleted);
\* the rollover that closes a plan adds the day's actualSavings to its
\* totalSaved and no plan is Open after it, and a trigger that finds
\* lastLoginDate equal to today's date changes nothing, so the day is added
\* once.
C36_OpenPlansGetClosed ==
    /\ (state.lastLoginDate # EnCA(today))
          ~> (/\ state.lastLoginDate = EnCA(today)
              /\ \A i \in 1..Len(state.plans) : ~state.plans[i].dayActive)
    /\ [][/\ Rollover =>
                /\ \A i \in 1..Len(state'.plans) : ~state'.plans[i].dayActive
                /\ \A id \in Closing :
                      Find(state', id).totalSaved =
                          Add(OrZero(Find(state, id).totalSaved), ActualSavings(Find(state, id)))
          /\ (state.lastLoginDate = EnCA(today) /\ Trigger) => state' = state]_vars

\* A plan whose day of allowance 100 with 30 spent was closed by the rollover
\* of the next day
C36_Witness ==
    /\ state.lastLoginDate = EnCA(today)
    /\ \E i \in 1..Len(state.plans) :
          /\ ~state.plans[i].dayActive
          /\ state.plans[i].totalSaved = Num(70)
          /\ state.plans[i].totalSpent = Num(30)
          /\ Len(state.plans[i].history) = 1

====
